---- MODULE Spec2Model ----
(***************************************************************************)
(* A model of croxy: the in-memory metrics store (src/src/metrics.rs), the *)
(* router (src/src/router.rs, src/src/auto_router.rs) and the forwarding   *)
(* pipeline (src/src/proxy.rs).                                            *)
(*                                                                         *)
(* Time is counted in ticks.  An Instant is a tick number, a Duration a    *)
(* number of ticks; TicksPerMilli ticks make one millisecond, so that      *)
(* Duration::as_millis truncates.                                          *)
(***************************************************************************)
EXTENDS Integers, Sequences, FiniteSets, TLC

\* Option<T>: None, or Some(x)
None == <<>>
Some(x) == <<x>>

(***************************************************************************)
(* Bounds of the model.                                                    *)
(***************************************************************************)
\* the clock stops at this tick
MaxTime == 2
\* a record is inserted with a timestamp at most this many ticks in the past
MaxAge == 1
\* no more than this many IDs are issued
MaxIds == 2
\* a configuration has at most this many [[routes]]
MaxRoutes == 2
\* a streamed body has at most this many bytes
MaxBytes == 8
\* at most this many responses are streamed
MaxStreams == 1
\* max_body_size of the configuration, in bytes
MaxBodySize == 48
\* the largest token count an upstream reports in a header
MaxTokens == 7
\* a log has at most this many rotated files
MaxFiles == 2
\* max_size_mb is at most this
MaxSizeMb == 1
\* at most this many lines are written to a log
MaxLines == 4
\* the length of a log line with its line break, in bytes
LineBytes == 524288
\* the largest max_size_mb of a log that is tailed
TailSizeMb == 2
\* the calls of record and record_pending on one store
MaxCalls == 2
\* the retention window of the store, in ticks
Window == 1
\* ticks per millisecond
TicksPerMilli == 2

VARIABLES
    \* MetricsStore
    records,        \* Vec<RequestRecord>, in insertion order
    id_index,       \* HashMap<u64, usize>: record ID -> 0-based position
    next_id,        \* AtomicU64
    logger,         \* TRUE iff the store was built with_logger
    written,        \* the lines the last operation gave to write_line
    now,            \* Instant::now()
    \* Router
    config,         \* the Config the router was built from
    router,         \* Router::from_config(config)
    \* the forwarding pipeline
    req,            \* the request handle_request is serving
    \* the locks of MetricsStore and the threads of control that take them
    records_lock,   \* RwLock of records: the holder of the write lock
    index_lock,     \* RwLock of id_index: its writer and its readers
    streams,        \* record ID -> the streamed response with that record
    evictor,        \* the eviction task
    \* header rewriting
    hdr,            \* the arguments and results of the header functions
    \* the rotating metrics log
    files,          \* the log directory: the active file and the rotated ones
    logcfg,         \* MetricsLogConfig: max_size_mb, max_files
    position,       \* tail_log's position in the active file, in bytes
    \* history of the run (not program state)
    issued,         \* the IDs handed out by fetch_add, in order
    pending_ids,    \* the IDs returned by record_pending
    inserted_idx,   \* ID -> the position the record was pushed at
    last,           \* the operation performed last, its arguments and result
    log_hist        \* the directory at the start and the number of write_line calls

store_vars == <<records, id_index, next_id, logger, written, now>>
hist_vars == <<issued, pending_ids, inserted_idx, last>>
router_vars == <<config, router>>
proxy_vars == <<records_lock, index_lock, streams, evictor>>
log_vars == <<files, logcfg, log_hist>>
side_vars == <<hdr, log_vars, position>>
vars == <<store_vars, hist_vars, router_vars, req, proxy_vars, side_vars>>

(***************************************************************************)
(* Values                                                                  *)
(***************************************************************************)
Max0(n) == IF n < 0 THEN 0 ELSE n

\* Duration::as_millis
as_millis(d) == d \div TicksPerMilli

\* Records as the callers build them (id = 0, set by the store on insertion).
\* A streamed response, with placeholder duration and output_tokens
\* (proxy.rs:329-341, 355):
PendingSample ==
    [id |-> 0, model |-> "claude-opus-4-6", provider |-> "anthropic",
     routing_method |-> "Default", status |-> 200, duration |-> 0,
     input_tokens |-> 100, output_tokens |-> 0, error_body |-> None]
\* An upstream error (proxy.rs:150-152):
ErrorSample ==
    [id |-> 0, model |-> "claude-sonnet-4-5", provider |-> "ollama",
     routing_method |-> "Pattern", status |-> 500, duration |-> 1,
     input_tokens |-> 50, output_tokens |-> 200,
     error_body |-> Some(<<"HTTP ", "500", " ", "Internal Server Error",
                         " (", "13", " bytes)">>)]

\* a caller's record stamped with its monotonic and wall-clock acceptance time
Stamped(rec, ts) ==
    [id |-> rec.id, timestamp |-> ts, wallclock |-> ts, model |-> rec.model,
     provider |-> rec.provider, routing_method |-> rec.routing_method,
     status |-> rec.status, duration |-> rec.duration,
     input_tokens |-> rec.input_tokens, output_tokens |-> rec.output_tokens,
     error_body |-> rec.error_body]

\* the (output_tokens, duration) arguments of finalize_stream
FinalArgs == {<<0, 1>>, <<7, 3>>}

(***************************************************************************)
(* MetricsStore                                                            *)
(***************************************************************************)
\* a faulty variant of fetch_add: the counter is not advanced
fetch_add_none(n) == n

\* AtomicU64::fetch_add(1): the new value of the counter
fetch_add(n) == n + 1

\* HashMap::insert
insert(index, id, idx) ==
    [k \in (DOMAIN index) \cup {id} |-> IF k = id THEN idx ELSE index[k]]

\* a faulty variant of log_entry: the error key is left out when there is no
\* error body
log_entry_sparse(record) ==
    IF record.error_body = None
    THEN [timestamp |-> record.wallclock, model |-> record.model,
          backend |-> record.provider, status |-> record.status,
          duration_ms |-> as_millis(record.duration),
          input_tokens |-> record.input_tokens,
          output_tokens |-> record.output_tokens]
    ELSE [timestamp |-> record.wallclock, model |-> record.model,
          backend |-> record.provider, status |-> record.status,
          duration_ms |-> as_millis(record.duration),
          input_tokens |-> record.input_tokens,
          output_tokens |-> record.output_tokens,
          error |-> record.error_body]

\* a faulty variant of log_entry: the name of the provider is written under
\* the key provider
log_entry_provider_key(record) ==
    [timestamp |-> record.wallclock, model |-> record.model,
     provider |-> record.provider, status |-> record.status,
     duration_ms |-> as_millis(record.duration),
     input_tokens |-> record.input_tokens,
     output_tokens |-> record.output_tokens, error |-> record.error_body]

\* the JSON object log_record builds from a record
log_entry(record) ==
    [timestamp |-> record.wallclock, model |-> record.model,
     backend |-> record.provider, status |-> record.status,
     duration_ms |-> as_millis(record.duration),
     input_tokens |-> record.input_tokens,
     output_tokens |-> record.output_tokens, error |-> record.error_body]

\* log_record: the line that reaches the log; ok is whether write_line
\* succeeded
log_record(record, ok) ==
    IF logger /\ ok THEN <<log_entry(record)>> ELSE <<>>

\* the history of an insertion
Inserted(id, pending) ==
    /\ issued' = Append(issued, id)
    /\ pending_ids' = IF pending THEN pending_ids \cup {id} ELSE pending_ids
    /\ inserted_idx' = insert(inserted_idx, id, Len(records))

NoResult == [op |-> "new", id |-> 0, output_tokens |-> 0, duration |-> 0,
             result |-> <<>>]

\* a faulty variant of record: a record whose line could not be written is
\* not inserted
record_if_logged(rec, ok) ==
    LET id == next_id
        r == [rec EXCEPT !.id = id]
        idx == Len(records)
        failed == logger /\ ~ok
    IN  /\ next_id' = fetch_add(next_id)
        /\ written' = log_record(r, ok)
        /\ records' = IF failed THEN records ELSE Append(records, r)
        /\ id_index' = IF failed THEN id_index ELSE insert(id_index, id, idx)
        /\ Inserted(id, FALSE)
        /\ last' = [NoResult EXCEPT !.op = "record", !.id = id]

\* MetricsStore::record
record(rec, ok) ==
    LET id == next_id
        r == [rec EXCEPT !.id = id]
        idx == Len(records)
    IN  /\ next_id' = fetch_add(next_id)
        /\ written' = log_record(r, ok)
        /\ records' = Append(records, r)
        /\ id_index' = insert(id_index, id, idx)
        /\ Inserted(id, FALSE)
        /\ last' = [NoResult EXCEPT !.op = "record", !.id = id]

\* a faulty variant of record_pending: the pending record is logged
record_pending_logged(rec) ==
    LET id == next_id
        r == [rec EXCEPT !.id = id]
        idx == Len(records)
    IN  /\ next_id' = fetch_add(next_id)
        /\ written' = log_record(r, TRUE)
        /\ records' = Append(records, r)
        /\ id_index' = insert(id_index, id, idx)
        /\ Inserted(id, TRUE)
        /\ last' = [NoResult EXCEPT !.op = "record_pending", !.id = id]

\* MetricsStore::record_pending
record_pending(rec) ==
    LET id == next_id
        r == [rec EXCEPT !.id = id]
        idx == Len(records)
    IN  /\ next_id' = fetch_add(next_id)
        /\ records' = Append(records, r)
        /\ id_index' = insert(id_index, id, idx)
        /\ written' = <<>>
        /\ Inserted(id, TRUE)
        /\ last' = [NoResult EXCEPT !.op = "record_pending", !.id = id]

\* a faulty variant of lookup: the ID is taken for a position
lookup_position(id) ==
    IF id >= 1 /\ id - 1 < Len(records) THEN Some(id - 1) ELSE None

\* index.get(&id) followed by records.get_mut(idx): the position to update
lookup(id) ==
    IF id \in DOMAIN id_index /\ id_index[id] < Len(records)
    THEN Some(id_index[id]) ELSE None

\* a faulty variant of finalize_stream: the completed record is pushed as a
\* new one
finalize_stream_push(id, output_tokens, duration, ok) ==
    LET idx == lookup(id)
        completed ==
            IF idx = None THEN None
            ELSE Some([records[idx[1] + 1] EXCEPT
                          !.output_tokens = output_tokens,
                          !.duration = duration])
    IN  /\ records' = IF completed = None THEN records
                      ELSE Append(records, completed[1])
        /\ written' = IF completed = None THEN <<>>
                      ELSE log_record(completed[1], ok)
        /\ UNCHANGED <<id_index, next_id, issued, pending_ids, inserted_idx>>
        /\ last' = [NoResult EXCEPT !.op = "finalize_stream", !.id = id,
                        !.output_tokens = output_tokens, !.duration = duration]

\* MetricsStore::finalize_stream
finalize_stream(id, output_tokens, duration, ok) ==
    LET idx == lookup(id)
        completed ==
            IF idx = None THEN None
            ELSE Some([records[idx[1] + 1] EXCEPT
                          !.output_tokens = output_tokens,
                          !.duration = duration])
    IN  /\ records' = IF completed = None THEN records
                      ELSE [records EXCEPT ![idx[1] + 1] = completed[1]]
        /\ written' = IF completed = None THEN <<>>
                      ELSE log_record(completed[1], ok)
        /\ UNCHANGED <<id_index, next_id, issued, pending_ids, inserted_idx>>
        /\ last' = [NoResult EXCEPT !.op = "finalize_stream", !.id = id,
                        !.output_tokens = output_tokens, !.duration = duration]

\* the IDs of a sequence of records
ids(recs) == {recs[i].id : i \in DOMAIN recs}

\* a faulty variant of filter: nothing is filtered out
filter_all(recs, cutoff) == recs

\* snapshot's .filter(|r| r.timestamp >= cutoff)
filter(recs, cutoff) == SelectSeq(recs, LAMBDA r : r.timestamp >= cutoff)

\* a faulty variant of retain: the record at the cutoff is dropped
retain_newer(recs, cutoff) == SelectSeq(recs, LAMBDA r : r.timestamp > cutoff)

\* a faulty variant of retain: the records that are kept change places
retain_reversed(recs, cutoff) ==
    LET kept == SelectSeq(recs, LAMBDA r : r.timestamp >= cutoff)
    IN  [i \in DOMAIN kept |-> kept[Len(kept) + 1 - i]]

\* evict_expired's records.retain(|r| r.timestamp >= cutoff)
retain(recs, cutoff) == SelectSeq(recs, LAMBDA r : r.timestamp >= cutoff)

\* MetricsStore::snapshot
snapshot ==
    LET cutoff == now - Window
    IN  /\ last' = [NoResult EXCEPT !.op = "snapshot",
                        !.result = filter(records, cutoff)]
        /\ written' = <<>>
        /\ UNCHANGED <<records, id_index, next_id,
                       issued, pending_ids, inserted_idx>>

\* a faulty variant of rebuild_index: the index is left as it was
rebuild_index_stale(recs) == id_index

\* the index evict_expired rebuilds from the surviving records
rebuild_index(recs) ==
    [id \in ids(recs) |->
            (CHOOSE i \in DOMAIN recs :
                /\ recs[i].id = id
                /\ \A j \in DOMAIN recs : recs[j].id = id => j <= i) - 1]

\* MetricsStore::evict_expired
evict_expired ==
    LET cutoff == now - Window
        kept == retain(records, cutoff)
    IN  /\ records' = kept
        /\ id_index' = rebuild_index(kept)
        /\ inserted_idx' =
              [id \in ids(kept) \cap DOMAIN inserted_idx |-> inserted_idx[id]]
        /\ written' = <<>>
        /\ UNCHANGED <<next_id, issued, pending_ids>>
        /\ last' = [NoResult EXCEPT !.op = "evict_expired",
                        !.result = SelectSeq(records,
                                       LAMBDA r : r.id \notin ids(kept))]

(***************************************************************************)
(* Strings that are matched or compared are sequences of characters.       *)
(***************************************************************************)
\* the model name "auto"
AUTO == <<"a", "u", "t", "o">>

\* the model names a client sends ("" when the body has no model)
Models ==
    { <<>>, AUTO, <<"a", "u", "t", "o", "x">>, <<"o", "p">>,
      <<"s", "o", "p">>, <<"z">> }

\* A regular expression is a set of alternatives, each a literal:
\* "op" is {"op"}, "so|h" is {"so", "h"}.  valid is whether Regex::new
\* accepts the pattern string.
Re(alts) == [valid |-> TRUE, alts |-> alts]

\* Regex::is_match: an unanchored search
is_match(pattern, text) ==
    \E alt \in pattern.alts :
        \E i \in 0..(Len(text) - Len(alt)) :
            SubSeq(text, i + 1, i + Len(alt)) = alt

\* str::trim_end_matches('/') of a URL, kept as its text without trailing
\* slashes and the number of trailing slashes
trim_end_matches(url) == [url EXCEPT !.slashes = 0]

(***************************************************************************)
(* Config                                                                  *)
(***************************************************************************)
Providers ==
    [name \in {"anthropic", "ollama"} |->
        IF name = "anthropic"
        THEN [url |-> [text |-> "https://api.anthropic.com", slashes |-> 0],
              strip_auth |-> FALSE, api_key |-> None,
              stub_count_tokens |-> FALSE]
        ELSE [url |-> [text |-> "http://localhost:11434", slashes |-> 1],
              strip_auth |-> TRUE, api_key |-> Some("ollama"),
              stub_count_tokens |-> TRUE]]

\* the [[routes]] elements configurations are made of
RouteElems ==
    { [pattern |-> Some(Re({<<"o", "p">>})), name |-> None,
       description |-> None, provider |-> "anthropic", model |-> None],
      [pattern |-> Some(Re({<<"s", "o">>, <<"h">>})), name |-> None,
       description |-> None, provider |-> "ollama", model |-> Some(<<"q", "w", "e", "n">>)],
      [pattern |-> None, name |-> Some("coding"),
       description |-> Some("code tasks"), provider |-> "ollama",
       model |-> Some(<<"c", "o", "d", "e", "r">>)],
      [pattern |-> Some(Re({<<"a", "u">>})), name |-> Some("writing"),
       description |-> Some("drafting"), provider |-> "ollama",
       model |-> Some(<<"w", "r", "i", "t", "e", "r">>)],
      [pattern |-> Some(Re({<<"x">>})), name |-> Some("coding"),
       description |-> Some("other code tasks"), provider |-> "anthropic",
       model |-> None] }

Configs ==
    { [providers |-> Providers,
       routes |-> rs,
       default |-> [provider |-> "anthropic"],
       auto_router |-> [enabled |-> e, url |-> "http://router/v1",
                        model |-> "arch-router", timeout_ms |-> 2000]] :
        rs \in UNION {[1..n -> RouteElems] : n \in 0..MaxRoutes},
        e \in BOOLEAN }

(***************************************************************************)
(* Router                                                                  *)
(***************************************************************************)
\* a faulty variant of seen_names: no name is remembered
seen_names_none(cfg, i) == {}

\* from_config's seen_names when it reaches route i: the names of the routes
\* before it that have a name and a description
seen_names(cfg, i) ==
    { cfg.routes[j].name[1] :
        j \in { k \in 1..(i - 1) :
                  /\ cfg.routes[k].name # None
                  /\ cfg.routes[k].description # None } }

\* a faulty variant of route_error: patterns are not compiled
route_error_uncompiled(cfg, i) ==
    LET route == cfg.routes[i]
    IN  IF route.pattern = None /\ route.description = None
        THEN Some("has neither pattern nor description")
        ELSE IF route.description # None /\ route.name = None
        THEN Some("has description but no name")
        ELSE IF route.provider \notin DOMAIN cfg.providers
        THEN Some("route provider not found in providers")
        ELSE IF /\ route.name # None /\ route.description # None
                /\ route.name[1] \in seen_names(cfg, i)
        THEN Some("duplicate route name")
        ELSE None

\* the error from_config returns for route i, or None
route_error(cfg, i) ==
    LET route == cfg.routes[i]
    IN  IF route.pattern = None /\ route.description = None
        THEN Some("has neither pattern nor description")
        ELSE IF route.description # None /\ route.name = None
        THEN Some("has description but no name")
        ELSE IF route.provider \notin DOMAIN cfg.providers
        THEN Some("route provider not found in providers")
        ELSE IF route.pattern # None /\ ~route.pattern[1].valid
        THEN Some("invalid regex")
        ELSE IF /\ route.name # None /\ route.description # None
                /\ route.name[1] \in seen_names(cfg, i)
        THEN Some("duplicate route name")
        ELSE None

\* CompiledRoute / AutoRouteEntry: the route with its provider's context
compiled(cfg, route) ==
    LET provider == cfg.providers[route.provider]
    IN  [pattern |-> route.pattern, name |-> route.name,
         provider_name |-> route.provider, provider_url |-> provider.url,
         model_rewrite |-> route.model, strip_auth |-> provider.strip_auth,
         api_key |-> provider.api_key,
         stub_count_tokens |-> provider.stub_count_tokens]

\* Router::from_config
from_config(cfg) ==
    LET bad == { i \in DOMAIN cfg.routes : route_error(cfg, i) # None }
        first_bad == CHOOSE i \in bad : \A j \in bad : i <= j
        with_pattern == SelectSeq(cfg.routes, LAMBDA r : r.pattern # None)
        described == SelectSeq(cfg.routes,
                         LAMBDA r : r.name # None /\ r.description # None)
        default_provider == cfg.providers[cfg.default.provider]
    IN  IF cfg.default.provider \notin DOMAIN cfg.providers
        THEN [ok |-> FALSE, err |-> "default provider not found in providers"]
        ELSE IF bad # {}
        THEN [ok |-> FALSE, err |-> route_error(cfg, first_bad)[1]]
        ELSE IF cfg.auto_router.enabled /\ cfg.auto_router.url = ""
        THEN [ok |-> FALSE, err |-> "auto_router.enabled is true but url is empty"]
        ELSE [ok |-> TRUE,
              routes |-> [i \in DOMAIN with_pattern |->
                            compiled(cfg, with_pattern[i])],
              auto_routes |-> [i \in DOMAIN described |->
                                 compiled(cfg, described[i])],
              auto_candidates |->
                  [i \in DOMAIN described |->
                      [name |-> described[i].name[1],
                       description |-> described[i].description[1]]],
              auto_router_config |->
                  IF cfg.auto_router.enabled
                  THEN Some([cfg.auto_router EXCEPT !.enabled = TRUE])
                  ELSE None,
              default |->
                  [provider_name |-> cfg.default.provider,
                   provider_url |-> default_provider.url,
                   model_rewrite |-> None,
                   strip_auth |-> default_provider.strip_auth,
                   api_key |-> default_provider.api_key,
                   stub_count_tokens |-> default_provider.stub_count_tokens,
                   routing_method |-> "Default"]]

\* the ResolvedRoute of a CompiledRoute or an AutoRouteEntry
resolved(entry, routing_method) ==
    [provider_name |-> entry.provider_name,
     provider_url |-> entry.provider_url,
     model_rewrite |-> entry.model_rewrite,
     strip_auth |-> entry.strip_auth,
     api_key |-> entry.api_key,
     stub_count_tokens |-> entry.stub_count_tokens,
     routing_method |-> routing_method]

\* Router::make_default
make_default == resolved(router.default, "Default")

\* the element of a sequence at the least of the positions hits, or None
first(seq, hits) ==
    IF hits = {} THEN None
    ELSE Some(seq[CHOOSE i \in hits : \A j \in hits : i <= j])

\* the element of a sequence at the greatest of the positions hits, or None
last_of(seq, hits) ==
    IF hits = {} THEN None
    ELSE Some(seq[CHOOSE i \in hits : \A j \in hits : j <= i])

\* a faulty variant of resolve_pattern: the last matching route wins
resolve_pattern_last(model) ==
    LET hit == last_of(router.routes,
                       { i \in DOMAIN router.routes :
                           is_match(router.routes[i].pattern[1], model) })
    IN  IF hit # None THEN resolved(hit[1], "Pattern") ELSE make_default

\* Router::resolve_pattern
resolve_pattern(model) ==
    LET hit == first(router.routes,
                     { i \in DOMAIN router.routes :
                         is_match(router.routes[i].pattern[1], model) })
    IN  IF hit # None THEN resolved(hit[1], "Pattern") ELSE make_default

(***************************************************************************)
(* Auto-classifier.  The reply of the classifier endpoint is an input:     *)
(* how the HTTP call ended and, when it brought a content string, what the *)
(* two parsers of parse_route_name find in that string.                    *)
(***************************************************************************)
RouteNames == {"coding", "writing", "other", "unknown"}

\* the content of choices[0].message: json_route is the "route" string of
\* the content parsed as JSON (None when it is no JSON or has no such
\* string), regex_route the first capture of ROUTE_REGEX in it
Contents ==
    [json_route : {None} \cup {Some(n) : n \in RouteNames},
     regex_route : {None} \cup {Some(n) : n \in {"coding", "other"}}]

Replies ==
    { [kind |-> k, content |-> None] :
        k \in {"network error", "timeout", "status 500", "parse failure",
               "no content"} }
    \cup { [kind |-> "content", content |-> Some(c)] : c \in Contents }

NoReply == [kind |-> "not called", content |-> None]

\* parse_route_name
parse_route_name(text, valid_names) ==
    IF text.json_route # None
    THEN IF text.json_route[1] # "other" /\ text.json_route[1] \in valid_names
         THEN text.json_route ELSE None
    ELSE IF text.regex_route = None THEN None
    ELSE IF /\ text.regex_route[1] # "other"
            /\ text.regex_route[1] \in valid_names
         THEN text.regex_route ELSE None

\* whether classify sends the request to the classifier endpoint
classify_posts(routes, messages) == ~(routes = <<>> \/ messages = <<>>)

\* auto_router::classify
classify(routes, messages, reply) ==
    IF ~classify_posts(routes, messages) THEN None
    ELSE IF reply.kind # "content" THEN None
    ELSE parse_route_name(reply.content[1],
                          {routes[i].name : i \in DOMAIN routes})

\* whether Router::resolve calls classify
calls_classify(model, messages) ==
    /\ model = AUTO
    /\ router.auto_router_config # None
    /\ messages # None
    /\ router.auto_candidates # <<>>

\* a faulty variant of find_auto: the first auto route, whatever its name
find_auto_first(name) ==
    IF router.auto_routes = <<>> THEN None ELSE Some(router.auto_routes[1])

\* the auto route Router::resolve looks up for the classifier's answer
find_auto(name) ==
    first(router.auto_routes,
          { i \in DOMAIN router.auto_routes :
              router.auto_routes[i].name = Some(name) })

\* Router::resolve
resolve(model, messages, reply) ==
    IF model = AUTO
    THEN LET name == IF calls_classify(model, messages)
                     THEN classify(router.auto_candidates, messages[1], reply)
                     ELSE None
             entry == IF name = None THEN None ELSE find_auto(name[1])
         IN  IF entry # None THEN resolved(entry[1], "Auto")
             ELSE make_default
    ELSE resolve_pattern(model)

(***************************************************************************)
(* The two RwLocks of MetricsStore.  A thread of control is named by a     *)
(* pair: <<"handler", id>>, <<"task", id>> or <<"evictor", 0>>.            *)
(***************************************************************************)
Unlocked == [w |-> None, r |-> {}]

\* RwLock::read succeeds: no writer holds the lock
can_read(lock) == lock.w = None

\* a faulty variant of can_write: the lock is not waited for
can_write_unguarded(lock) == TRUE

\* RwLock::write succeeds: nobody holds the lock
can_write(lock) == lock.w = None /\ lock.r = {}

IdleEvictor == [pc |-> "sleeping", cutoff |-> 0]

\* no stream is open, the evictor sleeps, the locks are free
NoThreads ==
    /\ records_lock = Unlocked
    /\ index_lock = Unlocked
    /\ streams = <<>>
    /\ evictor = IdleEvictor

(***************************************************************************)
(* Headers.  A HeaderMap is a sequence of <<name, value>> entries, one per *)
(* value; names are lower case.                                            *)
(***************************************************************************)
\* the entries of a map whose name is not name
without(headers, name) == SelectSeq(headers, LAMBDA e : e[1] # name)

\* HeaderMap::remove
header_remove(headers, name) == without(headers, name)

\* HeaderMap::insert: the value replaces every value the name had
header_insert(headers, name, value) ==
    Append(without(headers, name), <<name, value>>)

\* the values a map holds for a name
header_values(headers, name) ==
    { headers[i][2] : i \in { j \in DOMAIN headers : headers[j][1] = name } }

\* the names of a map
header_names(headers) == { headers[i][1] : i \in DOMAIN headers }

\* is_hop_by_hop
HopByHop ==
    { "connection", "keep-alive", "proxy-connection", "te", "trailer",
      "transfer-encoding", "upgrade" }

is_hop_by_hop(name) == name \in HopByHop

\* the api_key strings HeaderValue::from_str rejects
BadHeaderValues == { "key with a line break" }

\* usize::to_string of a length, as the value of content-length
to_string(n) == ToString(n)

\* the map after the entries of original that pass test were inserted in
\* turn into headers
RECURSIVE insert_all(_, _, _)
insert_all(headers, original, dropped) ==
    IF original = <<>> THEN headers
    ELSE insert_all(IF Head(original)[1] \in dropped THEN headers
                    ELSE header_insert(headers, Head(original)[1],
                                       Head(original)[2]),
                    Tail(original), dropped)

\* a faulty variant of forwarded_names: authorization is let through
forwarded_dropped_keep_auth(strip_auth) ==
    {"host"} \cup HopByHop \cup (IF strip_auth THEN {"x-api-key"} ELSE {})

\* build_forwarding_headers: the names skipped by the copying loop
forwarded_dropped(strip_auth) ==
    {"host"} \cup HopByHop
        \cup (IF strip_auth THEN {"authorization", "x-api-key"} ELSE {})

\* build_forwarding_headers
build_forwarding_headers(original_headers, route, body_len) ==
    LET copied == insert_all(<<>>, original_headers,
                             forwarded_dropped(route.strip_auth))
        keyed == IF /\ route.api_key # None
                    /\ route.api_key[1] \notin BadHeaderValues
                 THEN header_insert(copied, "x-api-key", route.api_key[1])
                 ELSE copied
        sized == IF body_len > 0
                 THEN header_insert(keyed, "content-length",
                                    to_string(body_len))
                 ELSE keyed
    IN  header_remove(sized, "accept-encoding")

\* a faulty variant of response_dropped: content-encoding is let through
response_dropped_hops == HopByHop

\* filter_response_headers: the names skipped
response_dropped == HopByHop \cup {"content-encoding"}

\* filter_response_headers
filter_response_headers(upstream_headers) ==
    insert_all(<<>>, upstream_headers, response_dropped)

\* header maps of client requests
ClientHeaders ==
    { <<>>,
      << <<"host", "proxy.local">>, <<"connection", "keep-alive">>,
         <<"keep-alive", "timeout=5">>, <<"proxy-connection", "close">>,
         <<"te", "trailers">>, <<"trailer", "expires">>,
         <<"transfer-encoding", "chunked">>, <<"upgrade", "h2c">>,
         <<"accept-encoding", "gzip">>,
         <<"content-type", "application/json">> >>,
      << <<"authorization", "Bearer client">>, <<"x-api-key", "client-key">>,
         <<"content-type", "application/json">> >>,
      << <<"authorization", "Bearer other">>,
         <<"content-type", "application/json">> >>,
      << <<"x-api-key", "client-key">>, <<"x-api-key", "second-key">>,
         <<"content-type", "application/json">> >>,
      << <<"content-type", "application/json">> >>,
      << <<"x-api-key", "ollama">>, <<"content-length", to_string(1)>>,
         <<"accept-encoding", "br">> >> }

\* header maps of upstream responses
UpstreamHeaders ==
    { <<>>,
      << <<"content-type", "text/event-stream">>,
         <<"content-encoding", "gzip">>, <<"transfer-encoding", "chunked">>,
         <<"connection", "close">>, <<"x-usage-output-tokens", "7">> >>,
      << <<"keep-alive", "timeout=5">>, <<"proxy-connection", "close">>,
         <<"te", "trailers">>, <<"trailer", "expires">>,
         <<"upgrade", "h2c">>, <<"content-length", to_string(2)>> >>,
      << <<"set-cookie", "a=1">>, <<"set-cookie", "b=2">> >> }

(***************************************************************************)
(* MetricsLogger and the replay of its files.  The directory is the active *)
(* file (its lines) and, for each index, the rotated file path.index or    *)
(* None where there is none.                                               *)
(***************************************************************************)
\* the indices of the rotated files the directory is observed at
Indices == 0..(MaxFiles + 1)

\* a directory with an empty active file and nothing else
NoFiles == [active |-> <<>>, rotated |-> [i \in Indices |-> None]]

\* A line of a file is its text and, where the text is the JSON of a log
\* entry, that entry.  The text is "json" for such a line, "" for an empty
\* line, "{}" for JSON that lacks fields of LogEntry and "not json" for
\* anything else; the entry of the other lines is not read.
json_line(entry) == [text |-> "json", entry |-> entry]

\* the line of the k-th record logged
Line(k) ==
    json_line(log_entry([Stamped(ErrorSample, 0) EXCEPT
                             !.id = k, !.model = <<"line", k>>]))

\* fs::metadata(path).len() of the active file
file_size(lines) == Len(lines) * LineBytes

\* MetricsLogger::new: max_size
logger_max_size(cfg) == cfg.max_size_mb * 1024 * 1024

\* a faulty variant of needs_rotation: a file of exactly max_size stays
needs_rotation_above(size, cfg) == size > logger_max_size(cfg)

\* maybe_rotate: the negation of size < self.max_size
needs_rotation(size, cfg) == ~(size < logger_max_size(cfg))

\* rotate: for i in (1..max_files).rev(), rename path.i to path.(i+1) if it
\* exists; called with i = max_files - 1
RECURSIVE shift(_, _)
shift(rotated, i) ==
    IF i < 1 THEN rotated
    ELSE shift(IF rotated[i] # None
               THEN [rotated EXCEPT ![i + 1] = rotated[i], ![i] = None]
               ELSE rotated,
               i - 1)

\* MetricsLogger::rotate
rotate(dir, cfg) ==
    LET removed == [dir.rotated EXCEPT ![cfg.max_files] = None]
        shifted == shift(removed, cfg.max_files - 1)
    IN  [active |-> <<>>,
         rotated |-> [shifted EXCEPT ![1] = Some(dir.active)]]

\* MetricsLogger::write_line
write_line(dir, cfg, line) ==
    LET appended == [dir EXCEPT !.active = Append(@, line)]
    IN  IF needs_rotation(file_size(appended.active), cfg)
        THEN rotate(appended, cfg)
        ELSE appended

\* a faulty variant of paths: path.1 is read first
paths_newest_first(cfg) == [i \in 1..cfg.max_files |-> i]

\* load_history: the indices of the rotated files in the order they are
\* read, path.max_files first; the active file is read after them
paths(cfg) == [i \in 1..cfg.max_files |-> cfg.max_files + 1 - i]

\* load_history: the lines of the files in the order they are read
RECURSIVE read_files(_, _)
read_files(dir, order) ==
    IF order = <<>> THEN dir.active
    ELSE (IF dir.rotated[Head(order)] = None THEN <<>>
          ELSE dir.rotated[Head(order)][1])
         \o read_files(dir, Tail(order))

\* a faulty variant of deserializes: every line is taken for a log entry
deserializes_all(line) == TRUE

\* the fields of LogEntry that a line must have (error is an Option: a line
\* without it deserializes with None)
LogEntry ==
    {"timestamp", "model", "backend", "status", "duration_ms",
     "input_tokens", "output_tokens"}

\* LogEntry's error: Option<String>
entry_error(entry) ==
    IF "error" \in DOMAIN entry THEN entry.error ELSE None

\* serde_json::from_str::<LogEntry>(line) is Ok
deserializes(line) ==
    /\ line.text = "json"
    /\ LogEntry \subseteq DOMAIN line.entry

\* a faulty variant of parse_log_entry: the wall-clock time of the record is
\* the time of reading
parse_log_entry_read_now(line) ==
    IF ~deserializes(line) THEN None
    ELSE IF now - line.entry.timestamp < 0 THEN None
    ELSE Some([id |-> 0,
               timestamp |-> now - (now - line.entry.timestamp),
               wallclock |-> now,
               model |-> line.entry.model,
               provider |-> line.entry.backend,
               routing_method |-> "Default",
               status |-> line.entry.status,
               duration |-> line.entry.duration_ms * TicksPerMilli,
               input_tokens |-> line.entry.input_tokens,
               output_tokens |-> line.entry.output_tokens,
               error_body |-> entry_error(line.entry)])

\* parse_log_entry: None for a line that is no LogEntry and for one whose
\* timestamp is later than Utc::now() (to_std fails for a negative age)
parse_log_entry(line) ==
    IF ~deserializes(line) THEN None
    ELSE IF now - line.entry.timestamp < 0 THEN None
    ELSE Some([id |-> 0,
               timestamp |-> now - (now - line.entry.timestamp),
               wallclock |-> line.entry.timestamp,
               model |-> line.entry.model,
               provider |-> line.entry.backend,
               routing_method |-> "Default",
               status |-> line.entry.status,
               duration |-> line.entry.duration_ms * TicksPerMilli,
               input_tokens |-> line.entry.input_tokens,
               output_tokens |-> line.entry.output_tokens,
               error_body |-> entry_error(line.entry)])

\* the records parse_log_entry returns for the lines that are not empty
parsed_lines(lines) ==
    LET read == SelectSeq(lines, LAMBDA l : l.text # ""
                                     /\ parse_log_entry(l) # None)
    IN  [i \in DOMAIN read |-> parse_log_entry(read[i])[1]]

\* a faulty variant of history: the files are read backwards
history_reversed(dir, cfg) ==
    LET recs == SelectSeq(parsed_lines(read_files(dir, paths(cfg))),
                          LAMBDA r : ~(r.wallclock < now - Window))
    IN  [i \in DOMAIN recs |-> recs[Len(recs) + 1 - i]]

\* load_history: the records given to store.record, in order
history(dir, cfg) ==
    SelectSeq(parsed_lines(read_files(dir, paths(cfg))),
              LAMBDA r : ~(r.wallclock < now - Window))

\* store.record called for each record of a sequence in turn, by a store
\* without a logger
record_each_into(store, recs) ==
    LET n == Len(recs)
        base == Len(store.records)
        first_id == store.next_id
    IN  /\ records' = store.records \o
                          [i \in 1..n |-> [recs[i] EXCEPT !.id = first_id + i - 1]]
        /\ id_index' = [id \in (DOMAIN store.id_index)
                                  \cup (first_id..(first_id + n - 1)) |->
                           IF id >= first_id THEN base + (id - first_id)
                           ELSE store.id_index[id]]
        /\ next_id' = first_id + n
        /\ issued' = store.issued \o [i \in 1..n |-> first_id + i - 1]
        /\ inserted_idx' = [id \in (DOMAIN store.inserted_idx)
                                      \cup (first_id..(first_id + n - 1)) |->
                               IF id >= first_id THEN base + (id - first_id)
                               ELSE store.inserted_idx[id]]
        /\ pending_ids' = store.pending_ids
        /\ written' = <<>>

\* the store this process holds
this_store ==
    [records |-> records, id_index |-> id_index, next_id |-> next_id,
     issued |-> issued, inserted_idx |-> inserted_idx,
     pending_ids |-> pending_ids]

\* MetricsStore::new: the store of a process that starts
new_store ==
    [records |-> <<>>, id_index |-> <<>>, next_id |-> 1,
     issued |-> <<>>, inserted_idx |-> <<>>, pending_ids |-> {}]

\* store.record for each record of a sequence, in order
record_each(recs) == record_each_into(this_store, recs)

\* load_history
load_history(dir, cfg) == record_each(history(dir, cfg))

\* a faulty variant of reset_position: a file that shrank is not detected
reset_position_never(file_len, pos) == pos

\* tail_log: if file_len < position { position = 0 }
reset_position(file_len, pos) == IF file_len < pos THEN 0 ELSE pos

\* reader.seek(SeekFrom::Start(pos)) and read_line until Ok(0): the lines of
\* the file from byte pos on
read_from(lines, pos) == SubSeq(lines, pos \div LineBytes + 1, Len(lines))

\* one turn of tail_log's loop after the sleep; opened is whether File::open
\* and metadata succeeded
poll(opened) ==
    IF ~opened
    THEN /\ written' = <<>>
         /\ UNCHANGED <<position, records, id_index, next_id, issued,
                        pending_ids, inserted_idx>>
    ELSE LET file_len == file_size(files.active)
             start == reset_position(file_len, position[1])
             read == read_from(files.active, start)
         IN  IF file_len = start
             THEN /\ position' = Some(start)
                  /\ written' = <<>>
                  /\ UNCHANGED <<records, id_index, next_id, issued,
                                 pending_ids, inserted_idx>>
             ELSE /\ position' = Some(start + file_size(read))
                  /\ record_each(parsed_lines(read))

\* the log is disabled and nothing was written
NoLog ==
    /\ files = NoFiles
    /\ logcfg = [max_size_mb |-> 0, max_files |-> 0]
    /\ log_hist = [initial |-> NoFiles, written |-> 0, replayed |-> None,
                 tail_from |-> None,
                 lines |-> <<>>]

\* no header function has been called
NoCall ==
    [op |-> "none", original |-> <<>>, twin |-> <<>>, route |-> None,
     body_len |-> 0, result |-> <<>>, twin_result |-> <<>>]

NoSide == hdr = NoCall /\ NoLog /\ position = None

(***************************************************************************)
(* handle_request up to the moment the request is sent upstream.           *)
(***************************************************************************)
\* request bodies: empty, not JSON, longer than max_body_size, a JSON value
\* that is not an object (such as [1]), or a JSON object with an optional
\* "model" string and an optional "messages" array; spaces is the number of
\* bytes of insignificant white space in the client's text
Bodies ==
    { [kind |-> k, model |-> None, messages |-> None, spaces |-> 0] :
        k \in {"empty", "invalid", "oversize", "value"} }
    \cup [kind : {"json"},
          model : {None} \cup {Some(m) : m \in Models},
          messages : {None, Some(<<>>), Some(<<"hello">>)},
          spaces : {0}]
    \cup { [kind |-> "json", model |-> Some(<<"s", "o", "p">>),
            messages |-> Some(<<"hello">>), spaces |-> 1] }

\* Bytes::len of a body: {"messages":["hello"],"model":"sop"} is 36 bytes
byte_len(body) ==
    CASE body.kind = "empty" -> 0
      [] body.kind = "invalid" -> 3
      [] body.kind = "value" -> 3
      [] body.kind = "oversize" -> MaxBodySize + 1
      [] body.kind = "json" ->
            LET model_len == IF body.model = None THEN 0
                             ELSE 10 + Len(body.model[1])
                messages_len == IF body.messages = None THEN 0
                                ELSE IF body.messages[1] = <<>> THEN 13
                                ELSE 20
                comma == IF body.model # None /\ body.messages # None
                         THEN 1 ELSE 0
            IN  2 + model_len + comma + messages_len + body.spaces

\* request paths, with whether the path contains "/count_tokens"
Paths ==
    { [text |-> "/v1/messages", count_tokens |-> FALSE],
      [text |-> "/v1/messages/count_tokens", count_tokens |-> TRUE] }

\* the header maps of the requests handle_request serves
RequestHeaders ==
    { << <<"host", "proxy.local">>, <<"connection", "keep-alive">>,
         <<"accept-encoding", "gzip">>, <<"x-api-key", "client-key">>,
         <<"content-type", "application/json">>,
         <<"content-length", "99">> >>,
      << <<"authorization", "Bearer client">> >> }

IdleReq ==
    [pc |-> "idle", path |-> None, headers |-> <<>>, body |-> None,
     model |-> <<>>, messages |-> None, reply |-> NoReply,
     classifier_called |-> FALSE, route |-> None, sent |-> None,
     upstream |-> None, record_id |-> 0, total_bytes |-> 0,
     response |-> None]

\* a response to the client
Response(status, headers, body) ==
    [status |-> status, headers |-> headers, body |-> body]

\* a response body: a text, the stub's JSON, len bytes read from the
\* upstream, or the upstream's body stream
Body(kind, text, len) == [kind |-> kind, text |-> text, len |-> len]

\* (StatusCode, String)::into_response
into_response(status, text) ==
    Response(status, << <<"content-type", "text/plain; charset=utf-8">> >>,
             Body("text", text, 0))

\* a faulty variant of stub_count_tokens_response: no content-type is set
stub_count_tokens_response_bare ==
    Response(200, <<>>, Body("json", "{\"input_tokens\":0}", 18))

\* stub_count_tokens_response
stub_count_tokens_response ==
    Response(200, header_insert(<<>>, "content-type", "application/json"),
             Body("json", "{\"input_tokens\":0}", 18))

\* the model handle_request extracts from the body
body_model(body) ==
    IF body.kind = "json" /\ body.model # None THEN body.model[1] ELSE <<>>

\* the messages handle_request extracts from the body
body_messages(body) ==
    IF body.kind = "json" THEN body.messages ELSE None

\* whether json["model"] = .. panics: serde_json's IndexMut<&str> accepts an
\* object (and null) only
index_mut_panics(body) == body.kind = "value"

\* rewrite_model_in_body: serde_json::to_vec writes no white space
rewrite_model_in_body(body, new_model) ==
    IF body.kind = "json"
    THEN [body EXCEPT !.model = Some(new_model), !.spaces = 0]
    ELSE body

\* a faulty variant of body_too_large: the cap is not applied
body_unbounded(body) == FALSE

\* axum::body::to_bytes(body, max_body_size) fails
body_too_large(body) == byte_len(body) > MaxBodySize

\* handle_request: read and parse the body
Accept ==
    /\ req.pc = "idle"
    /\ \E body \in Bodies, path \in Paths, headers \in RequestHeaders :
          LET request == [IdleReq EXCEPT !.path = Some(path),
                                         !.headers = headers,
                                         !.body = Some(body)]
          IN  req' =
                IF body_too_large(body)
                THEN [request EXCEPT
                         !.pc = "done",
                         !.response = Some(into_response(400,
                                               "failed to read body"))]
                ELSE IF body.kind = "invalid"
                THEN [request EXCEPT
                         !.pc = "done",
                         !.response = Some(into_response(400,
                                               "invalid JSON body"))]
                ELSE [request EXCEPT !.pc = "resolving",
                                     !.model = body_model(body),
                                     !.messages = body_messages(body)]
    /\ UNCHANGED <<store_vars, hist_vars, router_vars, proxy_vars, side_vars>>

\* handle_request: state.router.resolve(&model, messages, &state.client);
\* the classifier's reply is an input when the classifier is called
Resolve ==
    /\ req.pc = "resolving"
    /\ LET called == /\ calls_classify(req.model, req.messages)
                     /\ classify_posts(router.auto_candidates, req.messages[1])
       IN  \E reply \in IF called THEN Replies ELSE {NoReply} :
              req' = [req EXCEPT !.pc = "resolved", !.reply = reply,
                                 !.classifier_called = called,
                                 !.route = Some(resolve(req.model, req.messages,
                                                        reply))]
    /\ UNCHANGED <<store_vars, hist_vars, router_vars, proxy_vars, side_vars>>

\* handle_request: the count_tokens stub, the model rewrite and the send;
\* a panic of the rewrite unwinds the task and the client gets no response
Forward ==
    /\ req.pc = "resolved"
    /\ LET route == req.route[1]
           final_body == IF route.model_rewrite # None
                         THEN rewrite_model_in_body(req.body[1],
                                                    route.model_rewrite[1])
                         ELSE req.body[1]
           url == [base |-> trim_end_matches(route.provider_url),
                   path |-> req.path[1].text]
           headers == build_forwarding_headers(req.headers, route,
                                               byte_len(final_body))
       IN  req' = IF req.path[1].count_tokens /\ route.stub_count_tokens
                  THEN [req EXCEPT !.pc = "done",
                                   !.response = Some(stub_count_tokens_response)]
                  ELSE IF /\ route.model_rewrite # None
                          /\ index_mut_panics(req.body[1])
                  THEN [req EXCEPT !.pc = "panicked"]
                  ELSE [req EXCEPT !.pc = "sending",
                                   !.sent = Some([url |-> url,
                                                  headers |-> headers,
                                                  body |-> final_body])]
    /\ UNCHANGED <<store_vars, hist_vars, router_vars, proxy_vars, side_vars>>

(***************************************************************************)
(* handle_request from the upstream's answer on.                           *)
(***************************************************************************)
\* the statuses of upstream responses
ErrorStatuses == {429, 500, 599}
OkStatuses == {200, 302}

\* StatusCode::canonical_reason
canonical_reason(status) ==
    CASE status = 200 -> Some("OK")
      [] status = 302 -> Some("Found")
      [] status = 429 -> Some("Too Many Requests")
      [] status = 500 -> Some("Internal Server Error")
      [] OTHER -> None

\* Display of StatusCode: the number, a space and the canonical reason
display(status) ==
    <<ToString(status), " ",
      IF canonical_reason(status) = None THEN "<unknown status code>"
      ELSE canonical_reason(status)[1]>>

\* format!("HTTP {status} ({error_len} bytes)"), as the pieces of the string
error_marker(status, error_len) ==
    <<"HTTP ">> \o display(status) \o <<" (", ToString(error_len), " bytes)">>

\* the bodies of upstream error responses: the lengths of the chunks, and
\* whether the body ends with a read error
ErrorBodies ==
    [chunks : {<<>>, <<13>>, <<MaxBodySize>>, <<30, 30, 30>>},
     fails : {FALSE}]
    \cup {[chunks |-> <<13, 20>>, fails |-> TRUE]}

\* a faulty variant of truncate: the buffer keeps its length
truncate_none(len, max_size) == len

\* Vec::truncate
truncate(len, max_size) == IF len > max_size THEN max_size ELSE len

\* read_capped_body: the length of the buffer after the chunks were read
RECURSIVE read_capped_body(_, _, _)
read_capped_body(chunks, buf_len, max_size) ==
    IF chunks = <<>> THEN buf_len
    ELSE IF buf_len + Head(chunks) >= max_size
         THEN truncate(buf_len + Head(chunks), max_size)
         ELSE read_capped_body(Tail(chunks), buf_len + Head(chunks), max_size)

\* HeaderMap::get: the first value of a name
header_get(headers, name) ==
    LET at == { i \in DOMAIN headers : headers[i][1] = name }
    IN  IF at = {} THEN None
        ELSE Some(headers[CHOOSE i \in at : \A j \in at : i <= j][2])

\* str::parse::<u64>
parse_u64(text) ==
    LET ns == { n \in 0..MaxTokens : ToString(n) = text }
    IN  IF ns = {} THEN None ELSE Some(CHOOSE n \in ns : TRUE)

\* parse_token_header
parse_token_header(headers, name) ==
    IF header_get(headers, name) = None THEN None
    ELSE parse_u64(header_get(headers, name)[1])

\* handle_request: input_tokens of the record
input_tokens_of(headers, body_len) ==
    IF parse_token_header(headers, "x-usage-input-tokens") # None
    THEN parse_token_header(headers, "x-usage-input-tokens")[1]
    ELSE body_len \div 4

\* handle_request: output_tokens of the record
output_tokens_of(headers) ==
    IF parse_token_header(headers, "x-usage-output-tokens") # None
    THEN parse_token_header(headers, "x-usage-output-tokens")[1]
    ELSE 0

\* handle_request: base_record
base_record(status, upstream_headers) ==
    [id |-> 0, timestamp |-> now, wallclock |-> now, model |-> req.model,
     provider |-> req.route[1].provider_name,
     routing_method |-> req.route[1].routing_method,
     status |-> status, duration |-> 0,
     input_tokens |-> input_tokens_of(upstream_headers,
                                      byte_len(req.body[1])),
     output_tokens |-> output_tokens_of(upstream_headers),
     error_body |-> None]

\* handle_request: the send fails; 502 is returned by the ? operator
SendFails ==
    /\ req.pc = "sending"
    /\ req' = [req EXCEPT !.pc = "done",
                          !.response = Some(into_response(502,
                                                "provider unreachable"))]
    /\ UNCHANGED <<store_vars, hist_vars, router_vars, proxy_vars, side_vars>>

\* handle_request and handle_error_response: the upstream answers with a
\* status >= 400
UpstreamError ==
    /\ req.pc = "sending"
    /\ \E status \in ErrorStatuses, upstream_headers \in UpstreamHeaders,
          body \in ErrorBodies :
          LET error_len == read_capped_body(body.chunks, 0, MaxBodySize)
              headers == header_insert(
                             filter_response_headers(upstream_headers),
                             "content-length", to_string(error_len))
          IN  /\ record([base_record(status, upstream_headers) EXCEPT
                            !.error_body =
                                Some(error_marker(status, error_len))], TRUE)
              /\ req' = [req EXCEPT
                            !.pc = "done",
                            !.upstream = Some([status |-> status,
                                               headers |-> upstream_headers,
                                               body |-> body]),
                            !.response = Some(Response(status, headers,
                                             Body("bytes", "", error_len)))]
    /\ UNCHANGED <<logger, now, router_vars, proxy_vars, side_vars>>

\* handle_request and stream_response: the upstream answers with a status
\* below 400
UpstreamOk ==
    /\ req.pc = "sending"
    /\ \E status \in OkStatuses, upstream_headers \in UpstreamHeaders :
          /\ record_pending(base_record(status, upstream_headers))
          /\ req' = [req EXCEPT
                        !.pc = "streaming",
                        !.upstream = Some([status |-> status,
                                           headers |-> upstream_headers,
                                           body |-> [chunks |-> <<>>,
                                                     fails |-> FALSE]]),
                        !.record_id = next_id,
                        !.response = Some(Response(status,
                                filter_response_headers(upstream_headers),
                                Body("stream", "", 0)))]
    /\ UNCHANGED <<logger, now, router_vars, proxy_vars, side_vars>>

\* the configurations Router::from_config accepts
Accepted == { cfg \in Configs : from_config(cfg).ok }

\* a configuration without routes
NoRoutes == CHOOSE cfg \in Accepted : cfg.routes = <<>> /\ ~cfg.auto_router.enabled

RouterInit ==
    /\ records = <<>>
    /\ id_index = <<>>
    /\ next_id = 1
    /\ logger = FALSE
    /\ written = <<>>
    /\ now = 0
    /\ issued = <<>>
    /\ pending_ids = {}
    /\ inserted_idx = <<>>
    /\ last = NoResult
    /\ config \in Accepted
    /\ router = from_config(config)
    /\ req = IdleReq
    /\ NoThreads
    /\ NoSide

RouterNext == Accept \/ Resolve \/ Forward

RouterSpec == RouterInit /\ [][RouterNext]_vars

(***************************************************************************)
(* The store driven through its public operations.                         *)
(***************************************************************************)
Init ==
    /\ records = <<>>
    /\ id_index = <<>>
    /\ next_id = 1
    /\ logger \in BOOLEAN
    /\ written = <<>>
    /\ now = 0
    /\ issued = <<>>
    /\ pending_ids = {}
    /\ inserted_idx = <<>>
    /\ last = NoResult
    /\ config = NoRoutes
    /\ router = from_config(config)
    /\ req = IdleReq
    /\ NoThreads
    /\ NoSide

Record ==
    /\ next_id <= MaxIds
    /\ \E ts \in Max0(now - MaxAge)..now, ok \in BOOLEAN :
          record(Stamped(ErrorSample, ts), ok)
    /\ UNCHANGED <<logger, now, router_vars, req, proxy_vars, side_vars>>

RecordPending ==
    /\ next_id <= MaxIds
    /\ \E ts \in Max0(now - MaxAge)..now :
          record_pending(Stamped(PendingSample, ts))
    /\ UNCHANGED <<logger, now, router_vars, req, proxy_vars, side_vars>>

FinalizeStream ==
    /\ \E id \in 1..next_id, a \in FinalArgs, ok \in BOOLEAN :
          finalize_stream(id, a[1], a[2], ok)
    /\ UNCHANGED <<logger, now, router_vars, req, proxy_vars, side_vars>>

Snapshot ==
    /\ snapshot
    /\ UNCHANGED <<logger, now, router_vars, req, proxy_vars, side_vars>>

EvictExpired ==
    /\ evict_expired
    /\ UNCHANGED <<logger, now, router_vars, req, proxy_vars, side_vars>>

Tick ==
    /\ now < MaxTime
    /\ now' = now + 1
    /\ last' = [NoResult EXCEPT !.op = "tick"]
    /\ written' = <<>>
    /\ UNCHANGED <<records, id_index, next_id, logger,
                   issued, pending_ids, inserted_idx, router_vars, req, proxy_vars, side_vars>>

Next ==
    \/ Record
    \/ RecordPending
    \/ FinalizeStream
    \/ Snapshot
    \/ EvictExpired
    \/ Tick

Spec == Init /\ [][Next]_vars

(***************************************************************************)
(* Streamed responses, with the store's operations taken apart at their    *)
(* lock acquisitions: handlers, finalize tasks and the eviction task run   *)
(* on different worker threads.                                            *)
(***************************************************************************)
\* the bytes of one chunk of an upstream body
ChunkLen == 8

\* the x-usage-output-tokens header of an upstream response (0: absent)
HeaderTokens == {0, 7}

\* how a response body stream ends
EndReasons == {"complete", "upstream error", "client disconnect"}

\* the threads of a streamed response
handler(id) == <<"handler", id>>
task(id) == <<"task", id>>
EVICTOR == <<"evictor", 0>>

\* stream_response: the estimate given to finalize_stream
estimated(header_output_tokens, total_bytes) ==
    IF header_output_tokens > 0 THEN header_output_tokens
    ELSE total_bytes \div 4

\* handle_request: the upstream answered with a status below 400;
\* record_pending takes the record's ID
Respond ==
    /\ next_id <= MaxStreams
    /\ \E start \in Max0(now - MaxAge)..now, tokens \in HeaderTokens :
          streams' = insert(streams, next_id,
                            [pc |-> "pending: lock records", start |-> start,
                             header_output_tokens |-> tokens,
                             total_bytes |-> 0, reason |-> None,
                             signal |-> FALSE, called |-> None])
    /\ next_id' = fetch_add(next_id)
    /\ UNCHANGED <<records, id_index, logger, written, now, hist_vars,
                   router_vars, req, side_vars, records_lock, index_lock, evictor>>

\* record_pending: self.records.write(), records.push(record)
PendingLockRecords(id) ==
    /\ id \in DOMAIN streams
    /\ streams[id].pc = "pending: lock records"
    /\ can_write(records_lock)
    /\ records_lock' = [records_lock EXCEPT !.w = Some(handler(id))]
    /\ records' = Append(records,
                         [Stamped(PendingSample, streams[id].start) EXCEPT
                             !.id = id,
                             !.output_tokens = streams[id].header_output_tokens])
    /\ Inserted(id, TRUE)
    /\ streams' = [streams EXCEPT ![id].pc = "pending: lock index"]
    /\ UNCHANGED <<id_index, next_id, logger, written, now, last,
                   router_vars, req, side_vars, index_lock, evictor>>

\* record_pending: self.id_index.write().insert(id, idx), both guards
\* dropped; stream_response spawns the finalize task
PendingLockIndex(id) ==
    /\ id \in DOMAIN streams
    /\ streams[id].pc = "pending: lock index"
    /\ can_write(index_lock)
    /\ id_index' = insert(id_index, id, Len(records) - 1)
    /\ records_lock' = Unlocked
    /\ streams' = [streams EXCEPT ![id].pc = "streaming"]
    /\ UNCHANGED <<records, next_id, logger, written, now, hist_vars,
                   router_vars, req, side_vars, index_lock, evictor>>

\* stream_response: a chunk passes through map_ok
Chunk(id) ==
    /\ id \in DOMAIN streams
    /\ streams[id].pc = "streaming"
    /\ streams[id].total_bytes < MaxBytes
    /\ streams' = [streams EXCEPT ![id].total_bytes = @ + ChunkLen]
    /\ UNCHANGED <<store_vars, hist_vars, router_vars, req, side_vars, records_lock,
                   index_lock, evictor>>

\* the body stream ends: the upstream completes or fails, or the client
\* goes away
StreamEnd(id) ==
    /\ id \in DOMAIN streams
    /\ streams[id].pc = "streaming"
    /\ \E reason \in EndReasons :
          streams' = [streams EXCEPT ![id].pc = "ended",
                                     ![id].reason = Some(reason)]
    /\ UNCHANGED <<store_vars, hist_vars, router_vars, req, side_vars, records_lock,
                   index_lock, evictor>>

\* the body is dropped and with it the StreamGuard: Drop sends the signal
DropGuard(id) ==
    /\ id \in DOMAIN streams
    /\ streams[id].pc = "ended"
    /\ streams' = [streams EXCEPT ![id].pc = "dropped", ![id].signal = TRUE]
    /\ UNCHANGED <<store_vars, hist_vars, router_vars, req, side_vars, records_lock,
                   index_lock, evictor>>

\* a faulty variant of TaskWakes: the task runs again after finalize_stream
\* has returned
TaskWakesAgain(id) ==
    /\ id \in DOMAIN streams
    /\ streams[id].pc \in {"dropped", "finalized"}
    /\ streams[id].signal
    /\ streams' = [streams EXCEPT
          ![id].pc = "finalize: lock index",
          ![id].called = Some([output_tokens |->
                                   estimated(streams[id].header_output_tokens,
                                             streams[id].total_bytes),
                               duration |-> now - streams[id].start])]
    /\ UNCHANGED <<store_vars, hist_vars, router_vars, req, side_vars, records_lock,
                   index_lock, evictor>>

\* the spawned task: done_rx.await returns, the estimate is computed and
\* finalize_stream is called
TaskWakes(id) ==
    /\ id \in DOMAIN streams
    /\ streams[id].pc = "dropped"
    /\ streams[id].signal
    /\ streams' = [streams EXCEPT
          ![id].pc = "finalize: lock index",
          ![id].called = Some([output_tokens |->
                                   estimated(streams[id].header_output_tokens,
                                             streams[id].total_bytes),
                               duration |-> now - streams[id].start])]
    /\ UNCHANGED <<store_vars, hist_vars, router_vars, req, side_vars, records_lock,
                   index_lock, evictor>>

\* finalize_stream: self.id_index.read()
FinalizeLockIndex(id) ==
    /\ id \in DOMAIN streams
    /\ streams[id].pc = "finalize: lock index"
    /\ can_read(index_lock)
    /\ index_lock' = [index_lock EXCEPT !.r = @ \cup {task(id)}]
    /\ streams' = [streams EXCEPT ![id].pc = "finalize: lock records"]
    /\ UNCHANGED <<store_vars, hist_vars, router_vars, req, side_vars, records_lock,
                   evictor>>

\* finalize_stream: self.records.write(), the update, both guards dropped,
\* log_record
FinalizeLockRecords(id) ==
    /\ id \in DOMAIN streams
    /\ streams[id].pc = "finalize: lock records"
    /\ can_write(records_lock)
    /\ \E ok \in BOOLEAN :
          finalize_stream(id, streams[id].called[1].output_tokens,
                          streams[id].called[1].duration, ok)
    /\ index_lock' = [index_lock EXCEPT !.r = @ \ {task(id)}]
    /\ streams' = [streams EXCEPT ![id].pc = "finalized"]
    /\ UNCHANGED <<logger, now, router_vars, req, side_vars, records_lock, evictor>>

\* the eviction task wakes: evict_expired computes the cutoff
EvictWakes ==
    /\ evictor.pc = "sleeping"
    /\ evictor' = [pc |-> "evict: lock records", cutoff |-> now - Window]
    /\ UNCHANGED <<store_vars, hist_vars, router_vars, req, side_vars, records_lock,
                   index_lock, streams>>

\* evict_expired: self.records.write(), records.retain
EvictLockRecords ==
    /\ evictor.pc = "evict: lock records"
    /\ can_write(records_lock)
    /\ records_lock' = [records_lock EXCEPT !.w = Some(EVICTOR)]
    /\ records' = retain(records, evictor.cutoff)
    /\ evictor' = [evictor EXCEPT !.pc = "evict: lock index"]
    /\ UNCHANGED <<id_index, next_id, logger, written, now, hist_vars,
                   router_vars, req, side_vars, index_lock, streams>>

\* evict_expired: self.id_index.write(), the rebuild, both guards dropped
EvictLockIndex ==
    /\ evictor.pc = "evict: lock index"
    /\ can_write(index_lock)
    /\ id_index' = rebuild_index(records)
    /\ records_lock' = Unlocked
    /\ evictor' = IdleEvictor
    /\ UNCHANGED <<records, next_id, logger, written, now, hist_vars,
                   router_vars, req, side_vars, index_lock, streams>>

\* time passes
Passes ==
    /\ now < MaxTime
    /\ now' = now + 1
    /\ UNCHANGED <<records, id_index, next_id, logger, written, hist_vars,
                   router_vars, req, proxy_vars, side_vars>>

ProxyInit ==
    /\ records = <<>>
    /\ id_index = <<>>
    /\ next_id = 1
    /\ logger \in BOOLEAN
    /\ written = <<>>
    /\ now = 0
    /\ issued = <<>>
    /\ pending_ids = {}
    /\ inserted_idx = <<>>
    /\ last = NoResult
    /\ config = NoRoutes
    /\ router = from_config(config)
    /\ req = IdleReq
    /\ NoThreads
    /\ NoSide

\* the steps of the threads of stream id that take a lock
StreamLocks(id) ==
    \/ PendingLockRecords(id)
    \/ PendingLockIndex(id)
    \/ FinalizeLockIndex(id)
    \/ FinalizeLockRecords(id)

\* the steps of the eviction task that take a lock
EvictLocks == EvictLockRecords \/ EvictLockIndex

ProxyNext ==
    \/ Respond
    \/ \E id \in DOMAIN streams :
          \/ StreamLocks(id)
          \/ Chunk(id)
          \/ StreamEnd(id)
          \/ DropGuard(id)
          \/ TaskWakes(id)
    \/ EvictWakes
    \/ EvictLocks
    \/ Passes

\* The runtime keeps running every thread: a body whose stream has ended
\* is dropped, a signalled task is scheduled, and a thread waiting for a
\* lock gets it if the lock is free again and again.
ProxyLive ==
    /\ ProxyInit
    /\ [][ProxyNext]_vars
    /\ \A id \in 1..MaxStreams :
          /\ WF_vars(DropGuard(id))
          /\ WF_vars(TaskWakes(id))
          /\ SF_vars(StreamLocks(id))
    /\ SF_vars(EvictLocks)

(***************************************************************************)
(* Concurrent callers of one MetricsStore, lock by lock: handlers that    *)
(* call record, streamed responses, the eviction task and snapshot.        *)
(***************************************************************************)
\* handle_request: a response that is not streamed is recorded; record
\* takes the ID and gives the line to the log before it takes a lock
Answer ==
    /\ next_id <= MaxCalls
    /\ \E start \in Max0(now - MaxAge)..now, ok \in BOOLEAN :
          /\ streams' = insert(streams, next_id,
                               [pc |-> "record: lock records", start |-> start,
                                header_output_tokens |-> 0,
                                total_bytes |-> 0, reason |-> None,
                                signal |-> FALSE, called |-> None])
          /\ written' = log_record([Stamped(ErrorSample, start) EXCEPT
                                       !.id = next_id], ok)
    /\ next_id' = fetch_add(next_id)
    /\ UNCHANGED <<records, id_index, logger, now, hist_vars,
                   router_vars, req, side_vars, records_lock, index_lock, evictor>>

\* record: self.records.write(), records.push(record)
RecordLockRecords(id) ==
    /\ id \in DOMAIN streams
    /\ streams[id].pc = "record: lock records"
    /\ can_write(records_lock)
    /\ records_lock' = [records_lock EXCEPT !.w = Some(handler(id))]
    /\ records' = Append(records,
                         [Stamped(ErrorSample, streams[id].start) EXCEPT
                             !.id = id])
    /\ Inserted(id, FALSE)
    /\ streams' = [streams EXCEPT ![id].pc = "record: lock index"]
    /\ UNCHANGED <<id_index, next_id, logger, written, now, last,
                   router_vars, req, side_vars, index_lock, evictor>>

\* record: self.id_index.write().insert(id, idx), both guards dropped
RecordLockIndex(id) ==
    /\ id \in DOMAIN streams
    /\ streams[id].pc = "record: lock index"
    /\ can_write(index_lock)
    /\ id_index' = insert(id_index, id, Len(records) - 1)
    /\ records_lock' = Unlocked
    /\ streams' = [streams EXCEPT ![id].pc = "recorded"]
    /\ UNCHANGED <<records, next_id, logger, written, now, hist_vars,
                   router_vars, req, side_vars, index_lock, evictor>>

\* snapshot: self.records.read(), the filter, the guard dropped
SnapshotLocked ==
    /\ can_read(records_lock)
    /\ snapshot
    /\ UNCHANGED <<logger, now, router_vars, req, proxy_vars, side_vars>>

\* the steps of the threads of call id that take a lock
CallLocks(id) ==
    \/ RecordLockRecords(id)
    \/ RecordLockIndex(id)
    \/ StreamLocks(id)

LockNext ==
    \/ Answer
    \/ Respond
    \/ \E id \in DOMAIN streams :
          \/ CallLocks(id)
          \/ StreamEnd(id)
          \/ DropGuard(id)
          \/ TaskWakes(id)
    \/ SnapshotLocked
    \/ EvictWakes
    \/ EvictLocks
    \/ Passes

LockSpec == ProxyInit /\ [][LockNext]_vars

\* The runtime keeps running every thread, and a thread waiting for a lock
\* gets it if the lock is free again and again.
LockLive ==
    /\ LockSpec
    /\ \A id \in 1..MaxCalls :
          /\ WF_vars(DropGuard(id))
          /\ WF_vars(TaskWakes(id))
          /\ SF_vars(CallLocks(id))
    /\ SF_vars(EvictLocks)

(***************************************************************************)
(* Properties of the metrics store                                         *)
(***************************************************************************)
\* the stored record with this ID (the ID is in ids(records))
record_of(id) == records[CHOOSE i \in DOMAIN records : records[i].id = id]

\* the age of a record at the current instant
age(r) == now - r.timestamp

\* C1: once finalize_stream(id, o, d) has run for an ID that record_pending
\* returned and whose record is still stored, every stored record with that
\* ID has output_tokens = o and duration = d, also when an eviction in
\* between has moved the record to another position.
C1_FinalizeFindsRecordById ==
    (last.op = "finalize_stream" /\ last.id \in pending_ids
        /\ last.id \in ids(records))
    => \A i \in DOMAIN records :
          records[i].id = last.id
          => /\ records[i].output_tokens = last.output_tokens
             /\ records[i].duration = last.duration

\* finalize_stream has just updated a pending record that an eviction had
\* shifted from the position it was pushed at
C1_Witness ==
    /\ last.op = "finalize_stream"
    /\ last.id \in pending_ids
    /\ last.id \in DOMAIN id_index
    /\ last.id \in DOMAIN inserted_idx
    /\ id_index[last.id] # inserted_idx[last.id]
    /\ last.output_tokens = 7
    /\ record_of(last.id).output_tokens = 7
    /\ record_of(last.id).duration = 3

C3_SnapshotStrictlyInsideWindow ==
    last.op = "snapshot"
    => \A i \in DOMAIN last.result : age(last.result[i]) < Window

\* C3, amended: every record snapshot returns is at most as old as the
\* window (now - mono_ts <= window), whether or not eviction has run, and
\* every stored record that is at most that old is returned.
C3_SnapshotInsideWindow ==
    last.op = "snapshot"
    => /\ \A i \in DOMAIN last.result : age(last.result[i]) <= Window
       /\ \A i \in DOMAIN records :
             age(records[i]) <= Window
             => \E k \in DOMAIN last.result : last.result[k] = records[i]

\* snapshot has returned a record exactly as old as the window and has left
\* out an older one that no eviction had removed
C3_Witness ==
    /\ last.op = "snapshot"
    /\ \E k \in DOMAIN last.result : age(last.result[k]) = Window
    /\ \E i \in DOMAIN records : age(records[i]) > Window

\* C4 as the specification states it: evict_expired leaves precisely the
\* records with now - mono_ts < retention, in their previous order.
C4_EvictKeepsStrictlyLive ==
    [][last'.op = "evict_expired"
       => records' = SelectSeq(records, LAMBDA r : age(r) < Window)]_vars

\* C4, amended: evict_expired leaves precisely the records with
\* now - mono_ts <= retention, in their previous relative order: no such
\* record is removed and no older record survives.
C4_EvictKeepsLive ==
    [][last'.op = "evict_expired"
       => /\ \A i \in DOMAIN records' :
                /\ age(records'[i]) <= Window
                /\ \E k \in DOMAIN records : records[k] = records'[i]
          /\ \A k \in DOMAIN records :
                age(records[k]) <= Window
                => \E i \in DOMAIN records' : records'[i] = records[k]
          /\ Len(records') <= Len(records)
          /\ \A i, j \in DOMAIN records' :
                i < j => \E k, l \in DOMAIN records :
                            /\ k < l
                            /\ records[k] = records'[i]
                            /\ records[l] = records'[j]]_vars

\* evict_expired has removed a record and kept one exactly as old as the
\* window
C4_Witness ==
    /\ last.op = "evict_expired"
    /\ Len(last.result) >= 1
    /\ \E i \in DOMAIN records : age(records[i]) = Window

\* C6: with a logger attached, record_pending gives no line to the log; a
\* line for an ID that record_pending returned is written by
\* finalize_stream only, one per call, and it is the line of the stored,
\* updated record: its output_tokens and duration_ms are the arguments of
\* the call.
C6_PendingLoggedOnFinalize ==
    logger
    => /\ last.op = "record_pending" => written = <<>>
       /\ (written # <<>> /\ last.id \in pending_ids)
          => /\ last.op = "finalize_stream"
             /\ Len(written) = 1
             /\ last.id \in ids(records)
             /\ written[1] = log_entry(record_of(last.id))
             /\ written[1].output_tokens = last.output_tokens
             /\ written[1].duration_ms = as_millis(last.duration)

\* finalize_stream has written the line of a pending record, which carries
\* the finalized values and not the placeholders
C6_Witness ==
    /\ logger
    /\ last.op = "finalize_stream"
    /\ last.id \in pending_ids
    /\ Len(written) = 1
    /\ written[1].output_tokens = 7
    /\ written[1].output_tokens # PendingSample.output_tokens
    /\ written[1].duration_ms = as_millis(3)
    /\ written[1].duration_ms # as_millis(PendingSample.duration)

\* C7: finalize_stream with an ID that no stored record has changes no
\* record, leaves the sequence, the index and the ID counter as they were,
\* and writes no log line.
C7_FinalizeUnknownIdIsNoOp ==
    [][(last'.op = "finalize_stream" /\ last'.id \notin ids(records))
       => /\ records' = records
          /\ id_index' = id_index
          /\ next_id' = next_id
          /\ written' = <<>>]_vars

\* finalize_stream has run, with a logger attached, for the ID of an evicted
\* record while another record was stored
C7_Witness ==
    /\ logger
    /\ last.op = "finalize_stream"
    /\ last.id \notin ids(records)
    /\ \E k \in DOMAIN issued : issued[k] = last.id
    /\ records # <<>>

\* finalize_stream has run for an ID that was never issued
C7_WitnessNeverIssued ==
    /\ last.op = "finalize_stream"
    /\ \A k \in DOMAIN issued : issued[k] # last.id
    /\ records # <<>>

(***************************************************************************)
(* Routing claims, checked under RouterSpec.                               *)
(***************************************************************************)
\* the route of a request that has been resolved
Routed == req.pc \in {"resolved", "sending", "done"} /\ req.route # None

\* the positions of the configured routes whose pattern matches the model
Matching ==
    { i \in DOMAIN config.routes :
        /\ config.routes[i].pattern # None
        /\ is_match(config.routes[i].pattern[1], req.model) }

\* the resolved route is the one of configured route element f
IsRouteOf(f, routing_method) ==
    LET route == req.route[1]
        provider == config.providers[f.provider]
    IN  /\ route.provider_name = f.provider
        /\ route.provider_url = provider.url
        /\ route.model_rewrite = f.model
        /\ route.strip_auth = provider.strip_auth
        /\ route.api_key = provider.api_key
        /\ route.stub_count_tokens = provider.stub_count_tokens
        /\ route.routing_method = routing_method

\* the resolved route is the default provider's, without a model rewrite
IsDefaultRoute ==
    IsRouteOf([provider |-> config.default.provider, model |-> None],
              "Default")

\* the resolved route is the first matching pattern route's, else the default
IsFirstPatternOrDefault ==
    IF Matching = {} THEN IsDefaultRoute
    ELSE IsRouteOf(config.routes[CHOOSE i \in Matching :
                                    \A j \in Matching : i <= j], "Pattern")

\* the classifier was called and failed or answered nothing usable
ClassifierUnusable ==
    /\ req.classifier_called
    /\ \/ req.reply.kind \in {"network error", "timeout", "status 500",
                              "parse failure"}
       \/ /\ req.reply.kind = "content"
          /\ req.reply.content[1].json_route \in {Some("other"), Some("unknown")}

\* C8 (as claimed): when the model is "auto" and the classifier fails or
\* answers nothing usable, the pattern routes are walked against the model
\* and the first match is returned tagged Pattern; the default route is
\* returned only when no pattern matches.
C8_AutoFailureFallsThroughToPattern ==
    (Routed /\ req.model = AUTO /\ ClassifierUnusable)
        => IsFirstPatternOrDefault

\* C9: for a model other than "auto", resolve returns the route of the
\* first configured pattern route that matches, tagged Pattern, or else the
\* default provider's route tagged Default without a model rewrite, and the
\* classifier is not called.
C9_NonAutoFirstPatternElseDefault ==
    (Routed /\ req.model # AUTO)
        => (IsFirstPatternOrDefault /\ ~req.classifier_called)

\* a model other than "auto" matched by two routes of different providers
\* while the auto-router is enabled
C9_Witness ==
    /\ Routed /\ req.model # AUTO
    /\ config.auto_router.enabled
    /\ \E i, j \in Matching :
          i < j /\ config.routes[i].provider # config.routes[j].provider
    /\ req.route[1].routing_method = "Pattern"

\* the name the classifier's reply carries
ReturnedName ==
    IF req.reply.kind # "content" THEN None
    ELSE IF req.reply.content[1].json_route # None
         THEN req.reply.content[1].json_route
         ELSE req.reply.content[1].regex_route

\* the configured routes the classifier can name
Named ==
    { i \in DOMAIN config.routes :
        config.routes[i].name # None /\ config.routes[i].description # None }

\* the classifier was called and returned the name of configured route i
AutoSuccess(i) ==
    /\ req.model = AUTO
    /\ req.classifier_called
    /\ i \in Named
    /\ ReturnedName = config.routes[i].name

\* the request was sent to the route's provider with the route's model
ForwardedRewritten(f) ==
    /\ req.sent # None
    /\ req.sent[1].url = [base |-> [config.providers[f.provider].url
                                       EXCEPT !.slashes = 0],
                          path |-> req.path[1].text]
    /\ req.sent[1].body = IF f.model = None THEN req.body[1]
                          ELSE [req.body[1] EXCEPT !.model = f.model]

\* C10 (as claimed): when the classifier returns a configured name for an
\* "auto" request, resolve returns that route tagged Auto and the request
\* is forwarded with its body model rewritten to the route's model.
C10_AutoSuccessForwardedRewritten ==
    \A i \in DOMAIN config.routes :
        (Routed /\ AutoSuccess(i))
            => /\ IsRouteOf(config.routes[i], "Auto")
               /\ req.pc # "resolved" => ForwardedRewritten(config.routes[i])

\* C10 (amended): ... and the request is forwarded with its body model
\* rewritten to the route's model, unless the path contains /count_tokens
\* and the route's provider stubs count_tokens: then the stub response is
\* returned and nothing is sent upstream.
C10_AutoSuccessForwardedUnlessStubbed ==
    \A i \in DOMAIN config.routes :
        (Routed /\ AutoSuccess(i))
            => /\ IsRouteOf(config.routes[i], "Auto")
               /\ req.pc # "resolved" =>
                    IF /\ req.path[1].count_tokens
                       /\ config.providers[config.routes[i].provider]
                              .stub_count_tokens
                    THEN /\ req.sent = None
                         /\ req.response = Some(stub_count_tokens_response)
                    ELSE ForwardedRewritten(config.routes[i])

\* an "auto" request classified to the second of two named routes and
\* sent upstream with that route's model in its body
C10_Witness ==
    /\ req.pc = "sending"
    /\ \E i \in Named :
          /\ AutoSuccess(i)
          /\ \E j \in Named : j < i
          /\ req.route[1].routing_method = "Auto"
          /\ config.routes[i].model # None
          /\ req.sent[1].body.model = config.routes[i].model
          /\ req.sent[1].body # req.body[1]

(***************************************************************************)
(* Streaming claims, checked under ProxyLive.                              *)
(***************************************************************************)
\* the body stream of the response with record id has ended
Ended(id) == id \in DOMAIN streams /\ streams[id].pc = "ended"

\* the finalize task of the response has called finalize_stream(id, ..)
Called(id) == id \in DOMAIN streams /\ streams[id].called # None

\* that call of finalize_stream has returned
Finalized(id) == id \in DOMAIN streams /\ streams[id].pc = "finalized"

\* C5 (as claimed): once the body stream of a streamed response ends, for
\* whatever reason, the detached task eventually calls finalize_stream for
\* the record's ID and the call completes: the pending record is finalized
\* (or found evicted).
C5_StreamEndLeadsToFinalized ==
    \A id \in 1..MaxStreams : Ended(id) ~> (Called(id) /\ Finalized(id))

\* the part of C5 that holds: the task eventually makes the call
C5_StreamEndLeadsToCall ==
    \A id \in 1..MaxStreams : Ended(id) ~> Called(id)

\* the state the call does not return from: the task holds the read lock
\* of id_index and waits for the write lock of records, which the eviction
\* task holds while it waits for the write lock of id_index
C5_Stuck ==
    \E id \in DOMAIN streams :
        /\ streams[id].pc = "finalize: lock records"
        /\ task(id) \in index_lock.r
        /\ records_lock.w = Some(EVICTOR)
        /\ evictor.pc = "evict: lock index"


(***************************************************************************)
(* One request served by handle_request from its arrival to the end of its *)
(* response, the store's operations taken as atomic.                       *)
(***************************************************************************)
\* a catch-all route: the pattern ".*" matches every model, the empty one
\* of a body without a model included
CatchAll ==
    [pattern |-> Some(Re({<<>>})), name |-> None, description |-> None,
     provider |-> "ollama", model |-> Some(<<"q", "w", "e", "n">>)]

\* the [[routes]] of the configurations the proxy serves the request under
HandlerRoutes ==
    { <<>>,
      << [pattern |-> Some(Re({<<"s", "o">>, <<"h">>})), name |-> None,
          description |-> None, provider |-> "ollama",
          model |-> Some(<<"q", "w", "e", "n">>)] >>,
      << [pattern |-> None, name |-> Some("coding"),
          description |-> Some("code tasks"), provider |-> "ollama",
          model |-> Some(<<"c", "o", "d", "e", "r">>)] >>,
      << [pattern |-> Some(Re({<<"o", "p">>})), name |-> None,
          description |-> None, provider |-> "anthropic", model |-> None],
         CatchAll >> }

HandlerConfigs ==
    { [providers |-> Providers,
       routes |-> rs,
       default |-> [provider |-> "anthropic"],
       auto_router |-> [enabled |-> TRUE, url |-> "http://router/v1",
                        model |-> "arch-router", timeout_ms |-> 2000]] :
        rs \in HandlerRoutes }

\* a record the store holds when the request arrives
Earlier ==
    [Stamped(ErrorSample, 0) EXCEPT !.id = 1]

HandlerInit ==
    /\ \/ /\ records = <<>>
          /\ id_index = <<>>
          /\ next_id = 1
          /\ issued = <<>>
          /\ inserted_idx = <<>>
       \/ /\ records = <<Earlier>>
          /\ id_index = insert(<<>>, 1, 0)
          /\ next_id = 2
          /\ issued = <<1>>
          /\ inserted_idx = insert(<<>>, 1, 0)
    /\ logger = FALSE
    /\ written = <<>>
    /\ now = 0
    /\ pending_ids = {}
    /\ last = NoResult
    /\ config \in HandlerConfigs
    /\ router = from_config(config)
    /\ req = IdleReq
    /\ NoThreads
    /\ NoSide

\* stream_response: a chunk of the upstream body passes to the client
StreamedChunk ==
    /\ req.pc = "streaming"
    /\ req.total_bytes + ChunkLen <= MaxBytes
    /\ req' = [req EXCEPT !.total_bytes = @ + ChunkLen]
    /\ UNCHANGED <<store_vars, hist_vars, router_vars, proxy_vars, side_vars>>

\* stream_response: the body stream is dropped and the spawned task calls
\* finalize_stream
StreamedEnd ==
    /\ req.pc = "streaming"
    /\ finalize_stream(req.record_id,
                       estimated(output_tokens_of(req.upstream[1].headers),
                                 req.total_bytes),
                       now - record_of(req.record_id).timestamp, TRUE)
    /\ req' = [req EXCEPT !.pc = "done"]
    /\ UNCHANGED <<logger, now, router_vars, proxy_vars, side_vars>>

HandlerNext ==
    \/ Accept
    \/ Resolve
    \/ Forward
    \/ SendFails
    \/ UpstreamError
    \/ UpstreamOk
    \/ StreamedChunk
    \/ StreamedEnd

HandlerSpec == HandlerInit /\ [][HandlerNext]_vars

(***************************************************************************)
(* The proxy writing its log and an attached process replaying it.         *)
(***************************************************************************)
LogInit ==
    /\ records = <<>>
    /\ id_index = <<>>
    /\ next_id = 1
    /\ logger = FALSE
    /\ written = <<>>
    /\ now = 0
    /\ issued = <<>>
    /\ pending_ids = {}
    /\ inserted_idx = <<>>
    /\ last = NoResult
    /\ config = NoRoutes
    /\ router = from_config(config)
    /\ req = IdleReq
    /\ NoThreads
    /\ hdr = NoCall
    /\ position = None
    /\ logcfg \in [max_size_mb : 0..MaxSizeMb, max_files : 0..MaxFiles]
    /\ files \in {NoFiles, [NoFiles EXCEPT !.active = <<Line(0)>>]}
    /\ log_hist = [initial |-> files, written |-> 0, replayed |-> None,
                 tail_from |-> None,
                 lines |-> <<>>]

\* the proxy logs its next record
WriteLine ==
    /\ log_hist.written < MaxLines
    /\ files' = write_line(files, logcfg, Line(log_hist.written + 1))
    /\ log_hist' = [log_hist EXCEPT !.written = @ + 1,
                        !.lines = Append(@, Line(log_hist.written + 1))]
    /\ UNCHANGED <<store_vars, hist_vars, router_vars, req, proxy_vars,
                   hdr, position, logcfg>>

\* run_attached: load_history into the empty store of the attached process
LoadHistory ==
    /\ log_hist.replayed = None
    /\ load_history(files, logcfg)
    /\ last' = [NoResult EXCEPT !.op = "load_history"]
    /\ log_hist' = [log_hist EXCEPT !.replayed = Some(log_hist.written)]
    /\ UNCHANGED <<logger, now, router_vars, req, proxy_vars, hdr, position,
                   files, logcfg>>

LogNext == WriteLine \/ LoadHistory

LogSpec == LogInit /\ [][LogNext]_vars

(***************************************************************************)
(* A proxy that logs its records, and a process attached to its log.       *)
(***************************************************************************)
ProxyLogInit ==
    /\ records = <<>>
    /\ id_index = <<>>
    /\ next_id = 1
    /\ logger = TRUE
    /\ written = <<>>
    /\ now = 0
    /\ issued = <<>>
    /\ pending_ids = {}
    /\ inserted_idx = <<>>
    /\ last = NoResult
    /\ config = NoRoutes
    /\ router = from_config(config)
    /\ req = IdleReq
    /\ NoThreads
    /\ hdr = NoCall
    /\ position = None
    /\ logcfg = [max_size_mb |-> MaxSizeMb, max_files |-> MaxFiles]
    /\ files = NoFiles
    /\ log_hist = [initial |-> files, written |-> 0, replayed |-> None,
                 tail_from |-> None,
                 lines |-> <<>>]

\* log_record's logger.write_line for the line the store operation produced
Logged ==
    /\ files' = IF written' = <<>> THEN files
                ELSE write_line(files, logcfg, json_line(written'[1]))
    /\ log_hist' = IF written' = <<>> THEN log_hist
                   ELSE [log_hist EXCEPT
                            !.written = @ + 1,
                            !.lines = Append(@, json_line(written'[1]))]

\* the proxy records a response that was not streamed
LoggedRecord ==
    /\ log_hist.replayed = None
    /\ next_id <= MaxIds
    /\ \E ts \in Max0(now - MaxAge)..now :
          record(Stamped(ErrorSample, ts), TRUE)
    /\ Logged
    /\ UNCHANGED <<logger, now, router_vars, req, proxy_vars, hdr, position,
                   logcfg>>

\* the proxy records a streamed response that begins
LoggedRecordPending ==
    /\ log_hist.replayed = None
    /\ next_id <= MaxIds
    /\ record_pending(Stamped(PendingSample, now))
    /\ Logged
    /\ UNCHANGED <<logger, now, router_vars, req, proxy_vars, hdr, position,
                   logcfg>>

\* the proxy completes a streamed response
LoggedFinalizeStream ==
    /\ log_hist.replayed = None
    /\ \E id \in pending_ids, a \in FinalArgs :
          /\ lookup(id) # None
          /\ records[lookup(id)[1] + 1].duration = 0
          /\ finalize_stream(id, a[1], a[2], TRUE)
    /\ Logged
    /\ UNCHANGED <<logger, now, router_vars, req, proxy_vars, hdr, position,
                   logcfg>>

\* run_attached up to the start of the TUI: a new store without a logger,
\* filled by load_history from the proxy's log
RunAttached ==
    /\ log_hist.replayed = None
    /\ record_each_into(new_store, history(files, logcfg))
    /\ logger' = FALSE
    /\ last' = [NoResult EXCEPT !.op = "load_history"]
    /\ log_hist' = [log_hist EXCEPT !.replayed = Some(log_hist.written)]
    /\ UNCHANGED <<now, router_vars, req, proxy_vars, hdr, position, files,
                   logcfg>>

\* the attached TUI takes a snapshot
AttachedSnapshot ==
    /\ log_hist.replayed # None
    /\ snapshot
    /\ UNCHANGED <<logger, now, router_vars, req, proxy_vars, side_vars>>

ProxyLogNext ==
    \/ LoggedRecord
    \/ LoggedRecordPending
    \/ LoggedFinalizeStream
    \/ Tick
    \/ RunAttached
    \/ AttachedSnapshot

ProxyLogSpec == ProxyLogInit /\ [][ProxyLogNext]_vars

(***************************************************************************)
(* tail_log following the active file of a proxy that writes and rotates.  *)
(***************************************************************************)
TailInit ==
    /\ records = <<>>
    /\ id_index = <<>>
    /\ next_id = 1
    /\ logger = FALSE
    /\ written = <<>>
    /\ now = 0
    /\ issued = <<>>
    /\ pending_ids = {}
    /\ inserted_idx = <<>>
    /\ last = NoResult
    /\ config = NoRoutes
    /\ router = from_config(config)
    /\ req = IdleReq
    /\ NoThreads
    /\ hdr = NoCall
    /\ position = None
    /\ logcfg \in [max_size_mb : 0..TailSizeMb, max_files : {MaxFiles}]
    /\ files \in {NoFiles, [NoFiles EXCEPT !.active = <<Line(0)>>]}
    /\ log_hist = [initial |-> files, written |-> 0, replayed |-> None,
                 tail_from |-> None,
                 lines |-> <<>>]

\* tail_log before its loop: the position is the length of the active file
TailStart ==
    /\ log_hist.replayed # None
    /\ position = None
    /\ position' = Some(file_size(files.active))
    /\ last' = [NoResult EXCEPT !.op = "tail_log"]
    /\ log_hist' = [log_hist EXCEPT !.tail_from = position']
    /\ written' = <<>>
    /\ UNCHANGED <<records, id_index, next_id, logger, now, issued,
                   pending_ids, inserted_idx, router_vars, req, proxy_vars,
                   hdr, files, logcfg>>

\* tail_log: one turn of the loop
Poll ==
    /\ position # None
    /\ \E opened \in BOOLEAN :
          /\ poll(opened)
          /\ last' = [NoResult EXCEPT
                         !.op = IF opened THEN "poll" ELSE "poll: no file"]
    /\ UNCHANGED <<logger, now, router_vars, req, proxy_vars, hdr, log_vars>>

TailNext == WriteLine \/ LoadHistory \/ TailStart \/ Poll

TailSpec == TailInit /\ [][TailNext]_vars

(***************************************************************************)
(* The serving modes of main: the store of a proxy and its eviction task.  *)
(***************************************************************************)
\* no eviction task was spawned
NoEvictor == [pc |-> "not spawned", cutoff |-> 0]

\* main: run_foreground, which calls spawn_eviction_task, if stdin is a
\* terminal, run_headless, which spawns nothing, otherwise (the process that
\* `croxy start` spawns has /dev/null as its stdin)
serve(use_tui) == IF use_tui THEN IdleEvictor ELSE NoEvictor

ServeInit ==
    /\ records = <<>>
    /\ id_index = <<>>
    /\ next_id = 1
    /\ logger = FALSE
    /\ written = <<>>
    /\ now = 0
    /\ issued = <<>>
    /\ pending_ids = {}
    /\ inserted_idx = <<>>
    /\ last = NoResult
    /\ config = NoRoutes
    /\ router = from_config(config)
    /\ req = IdleReq
    /\ records_lock = Unlocked
    /\ index_lock = Unlocked
    /\ streams = <<>>
    /\ \E use_tui \in BOOLEAN : evictor = serve(use_tui)
    /\ NoSide

\* spawn_eviction_task: interval.tick() fired, evict_expired is called
PeriodicEviction ==
    /\ evictor.pc = "sleeping"
    /\ evict_expired
    /\ UNCHANGED <<logger, now, router_vars, req, proxy_vars, side_vars>>

ServeNext ==
    \/ Record
    \/ RecordPending
    \/ Tick
    \/ PeriodicEviction

\* The interval of a spawned eviction task fires again and again.
ServeLive == ServeInit /\ [][ServeNext]_vars /\ WF_vars(PeriodicEviction)

(***************************************************************************)
(* main building the router from any configuration that parses.            *)
(***************************************************************************)
\* [[routes]] elements that from_config may refuse: an undefined provider,
\* a pattern that is no regex, a description without a name, neither a
\* pattern nor a description (with and without a name), and pattern routes
\* that carry the name of another route
OddRouteElems ==
    { [pattern |-> Some(Re({<<"o", "p">>})), name |-> None,
       description |-> None, provider |-> "nonexistent", model |-> None],
      [pattern |-> Some([valid |-> FALSE, alts |-> {}]), name |-> None,
       description |-> None, provider |-> "anthropic", model |-> None],
      [pattern |-> None, name |-> None,
       description |-> Some("code tasks"), provider |-> "ollama",
       model |-> None],
      [pattern |-> None, name |-> None,
       description |-> None, provider |-> "anthropic", model |-> None],
      [pattern |-> None, name |-> Some("coding"),
       description |-> None, provider |-> "anthropic", model |-> None],
      [pattern |-> Some(Re({<<"o", "p">>})), name |-> Some("coding"),
       description |-> None, provider |-> "anthropic", model |-> None],
      [pattern |-> Some(Re({<<"h">>})), name |-> Some("coding"),
       description |-> None, provider |-> "ollama", model |-> None] }

\* the configurations main may load
AnyConfigs ==
    { [providers |-> Providers,
       routes |-> rs,
       default |-> [provider |-> d],
       auto_router |-> [enabled |-> e, url |-> u,
                        model |-> "arch-router", timeout_ms |-> 2000]] :
        rs \in UNION {[1..n -> RouteElems \cup OddRouteElems] :
                        n \in 0..MaxRoutes},
        d \in {"anthropic", "nonexistent"},
        e \in BOOLEAN,
        u \in {"http://router/v1", ""} }

\* main before Router::from_config
Unbuilt == [ok |-> FALSE, err |-> "not built"]

ConfigInit ==
    /\ records = <<>>
    /\ id_index = <<>>
    /\ next_id = 1
    /\ logger = FALSE
    /\ written = <<>>
    /\ now = 0
    /\ issued = <<>>
    /\ pending_ids = {}
    /\ inserted_idx = <<>>
    /\ last = NoResult
    /\ config \in AnyConfigs
    /\ router = Unbuilt
    /\ req = IdleReq
    /\ NoThreads
    /\ NoSide

\* main: Router::from_config(&config), exit(1) on Err
FromConfig ==
    /\ router = Unbuilt
    /\ router' = from_config(config)
    /\ last' = [NoResult EXCEPT !.op = "from_config"]
    /\ UNCHANGED <<store_vars, issued, pending_ids, inserted_idx, config, req,
                   proxy_vars, side_vars>>

ConfigNext == FromConfig

ConfigSpec == ConfigInit /\ [][ConfigNext]_vars

(***************************************************************************)
(* load_history applied to directories that hold damaged, old and          *)
(* post-dated lines and lack files.                                        *)
(***************************************************************************)
\* the line of a record accepted at wall-clock time ts
StampedLine(k, ts) ==
    json_line(log_entry([Stamped(ErrorSample, ts) EXCEPT
                             !.id = k, !.model = <<"line", k>>]))

\* a line that is no log entry
BadLine(k, text) == [StampedLine(k, MaxTime) EXCEPT !.text = text]

\* lines at time MaxTime: a new one, one at the retention cutoff, one older
\* than the cutoff, one stamped later than now, an empty one, one that is
\* not JSON and one that is JSON but no LogEntry
LineSamples ==
    { StampedLine(1, MaxTime), StampedLine(2, MaxTime - Window),
      StampedLine(3, MaxTime - Window - 1), StampedLine(4, MaxTime + 1),
      BadLine(5, ""), BadLine(6, "not json"), BadLine(7, "{}") }

\* directories: an active file of up to two lines, path.1 and path.2 of one
\* line or absent
Directories ==
    [active : UNION { [1..n -> LineSamples] : n \in 0..2 },
     rotated : { [i \in Indices |->
                    IF i = 1 THEN one ELSE IF i = 2 THEN two ELSE None] :
                 one \in {None} \cup { Some(<<l>>) : l \in LineSamples },
                 two \in {None, Some(<<StampedLine(0, MaxTime)>>)} }]

HistoryInit ==
    /\ records = <<>>
    /\ id_index = <<>>
    /\ next_id = 1
    /\ logger = FALSE
    /\ written = <<>>
    /\ now = MaxTime
    /\ issued = <<>>
    /\ pending_ids = {}
    /\ inserted_idx = <<>>
    /\ last = NoResult
    /\ config = NoRoutes
    /\ router = from_config(config)
    /\ req = IdleReq
    /\ NoThreads
    /\ hdr = NoCall
    /\ position = None
    /\ logcfg \in [max_size_mb : {MaxSizeMb}, max_files : 1..MaxFiles]
    /\ files \in Directories
    /\ log_hist = [initial |-> files, written |-> 0, replayed |-> None,
                 tail_from |-> None,
                 lines |-> <<>>]

HistoryNext == LoadHistory

HistorySpec == HistoryInit /\ [][HistoryNext]_vars

(***************************************************************************)
(* The header functions applied to sample header maps.                     *)
(***************************************************************************)
\* the largest body length of a call of build_forwarding_headers
MaxBodyLen == 2

\* the fields of a ResolvedRoute build_forwarding_headers reads
HeaderRoutes ==
    [strip_auth : BOOLEAN,
     api_key : {None, Some("ollama"), Some("key with a line break")}]

AuthNames == {"authorization", "x-api-key"}

\* the entries of a map that are not authentication headers
non_auth(headers) == SelectSeq(headers, LAMBDA e : e[1] \notin AuthNames)

\* the entries of a map that are authentication headers
auth(headers) == SelectSeq(headers, LAMBDA e : e[1] \in AuthNames)

HeaderInit ==
    /\ records = <<>>
    /\ id_index = <<>>
    /\ next_id = 1
    /\ logger = FALSE
    /\ written = <<>>
    /\ now = 0
    /\ issued = <<>>
    /\ pending_ids = {}
    /\ inserted_idx = <<>>
    /\ last = NoResult
    /\ config = NoRoutes
    /\ router = from_config(config)
    /\ req = IdleReq
    /\ NoThreads
    /\ NoSide

\* build_forwarding_headers called for two requests that differ at most in
\* their authentication headers
BuildForwardingHeaders ==
    /\ \E original \in ClientHeaders, twin \in ClientHeaders,
          route \in HeaderRoutes, body_len \in 0..MaxBodyLen :
          /\ non_auth(original) = non_auth(twin)
          /\ hdr' = [op |-> "build_forwarding_headers",
                     original |-> original, twin |-> twin,
                     route |-> Some(route), body_len |-> body_len,
                     result |-> build_forwarding_headers(original, route,
                                                         body_len),
                     twin_result |-> build_forwarding_headers(twin, route,
                                                              body_len)]
    /\ UNCHANGED <<store_vars, hist_vars, router_vars, req, proxy_vars, log_vars,
                   position>>

\* filter_response_headers called on an upstream response
FilterResponseHeaders ==
    /\ \E upstream \in UpstreamHeaders :
          hdr' = [NoCall EXCEPT !.op = "filter_response_headers",
                                !.original = upstream,
                                !.result = filter_response_headers(upstream)]
    /\ UNCHANGED <<store_vars, hist_vars, router_vars, req, proxy_vars, log_vars,
                   position>>

HeaderNext == BuildForwardingHeaders \/ FilterResponseHeaders

HeaderSpec == HeaderInit /\ [][HeaderNext]_vars

(***************************************************************************)
(* C15.  Authentication headers on a strip_auth route.                     *)
(***************************************************************************)
Built == hdr.op = "build_forwarding_headers"

\* neither request's authentication headers are in the outbound headers
ClientAuthStripped ==
    /\ "authorization" \notin header_names(hdr.result)
    /\ header_values(hdr.result, "x-api-key") \subseteq
           { hdr.route[1].api_key[i] : i \in DOMAIN hdr.route[1].api_key }

\* the outbound authentication headers do not depend on the client's
SameOutboundAuth == auth(hdr.result) = auth(hdr.twin_result)

\* C15 as stated: on a strip_auth route the client's authorization and
\* x-api-key are not sent upstream, an api_key of the route is the outbound
\* x-api-key whatever the client sent, and two requests that differ only in
\* their authentication headers have the same outbound authentication headers
C15_StripAuthReplacesWithApiKey ==
    (Built /\ hdr.route[1].strip_auth) =>
        /\ ClientAuthStripped
        /\ hdr.route[1].api_key # None =>
               header_values(hdr.result, "x-api-key") = {hdr.route[1].api_key[1]}
        /\ SameOutboundAuth

\* C15 amended: the api_key of the route is the outbound x-api-key if it is
\* a valid header value; one that is not is skipped and no x-api-key is sent
C15_StripAuthReplacesWithValidApiKey ==
    (Built /\ hdr.route[1].strip_auth) =>
        /\ ClientAuthStripped
        /\ hdr.route[1].api_key # None =>
               header_values(hdr.result, "x-api-key") =
                   {hdr.route[1].api_key[1]} \ BadHeaderValues
        /\ SameOutboundAuth

\* two clients with different credentials on a strip_auth route with an
\* api_key
C15_Witness ==
    /\ Built
    /\ hdr.route[1].strip_auth
    /\ hdr.route[1].api_key = Some("ollama")
    /\ auth(hdr.original) # <<>>
    /\ auth(hdr.twin) # <<>>
    /\ auth(hdr.original) # auth(hdr.twin)
    /\ auth(hdr.result) = << <<"x-api-key", "ollama">> >>

(***************************************************************************)
(* C16.  Hop-by-hop headers, host, accept-encoding and content-encoding.   *)
(***************************************************************************)
\* C16: the outbound headers hold no host, hop-by-hop or accept-encoding
\* header, and the headers returned to the client hold no hop-by-hop or
\* content-encoding header
C16_NoHopByHopEitherWay ==
    /\ Built =>
           header_names(hdr.result) \cap
               ({"host", "accept-encoding", "connection", "keep-alive",
                 "proxy-connection", "te", "trailer", "transfer-encoding",
                 "upgrade"}) = {}
    /\ hdr.op = "filter_response_headers" =>
           header_names(hdr.result) \cap
               ({"content-encoding", "connection", "keep-alive",
                 "proxy-connection", "te", "trailer", "transfer-encoding",
                 "upgrade"}) = {}

\* a client request with every such header was forwarded with the others
C16_Witness ==
    /\ Built
    /\ {"host", "accept-encoding"} \cup HopByHop \subseteq
           header_names(hdr.original)
    /\ header_names(hdr.result) = {"content-type"}

\* an upstream response with content-encoding and hop-by-hop headers was
\* filtered
C16_WitnessResponse ==
    /\ hdr.op = "filter_response_headers"
    /\ {"content-encoding", "transfer-encoding", "connection"} \subseteq
           header_names(hdr.original)
    /\ header_names(hdr.result) = {"content-type", "x-usage-output-tokens"}


(***************************************************************************)
(* Claims about one request, checked under HandlerSpec.                    *)
(***************************************************************************)
\* handle_request has gone past the count_tokens stub and the model rewrite
Forwarded == req.pc \in {"sending", "streaming", "panicked", "done"} /\ req.route # None

\* the request is answered by the count_tokens stub
Stubbed == req.path[1].count_tokens /\ req.route[1].stub_count_tokens

\* the store holds what it held when the request arrived, and none of its
\* operations was called
NothingRecorded == records \in {<<>>, <<Earlier>>} /\ last = NoResult

\* the upstream has answered the request
Answered == req.upstream # None

\* the record the store inserted last
newest == records[Len(records)]

\* the store holds one record more than when the request arrived
OneRecordMore == SubSeq(records, 1, Len(records) - 1) \in {<<>>, <<Earlier>>}

\* C11: a request whose path contains /count_tokens and whose route has
\* stub_count_tokens is answered 200 with the body {"input_tokens":0} and
\* content-type application/json; nothing is sent upstream and no record is
\* inserted
C11_StubCountTokens ==
    (Forwarded /\ Stubbed) =>
        /\ req.pc = "done"
        /\ req.response # None
        /\ req.response[1].status = 200
        /\ req.response[1].body.text = "{\"input_tokens\":0}"
        /\ header_values(req.response[1].headers, "content-type")
               = {"application/json"}
        /\ req.sent = None
        /\ ~Answered
        /\ NothingRecorded

\* a count_tokens request routed by pattern to the stubbing provider and
\* answered
C11_Witness ==
    /\ Forwarded
    /\ Stubbed
    /\ req.route[1].routing_method = "Pattern"
    /\ req.body[1].kind = "json"
    /\ req.pc = "done"
    /\ req.response = Some(stub_count_tokens_response)

\* the send to the provider failed
SendFailed == req.pc = "done" /\ req.sent # None /\ ~Answered

\* C12 (as claimed): when the send to the provider fails the client gets 502
\* and the store gains one record for the request, with status 502 and an
\* error_body marker "HTTP 502 (... bytes)"
C12_UnreachableIsRecorded ==
    SendFailed =>
        /\ req.response # None
        /\ req.response[1].status = 502
        /\ Len(records) >= 1
        /\ OneRecordMore
        /\ newest.status = 502
        /\ newest.error_body # None
        /\ newest.error_body[1][1] = "HTTP "

\* what handle_request does when the send fails: 502, and no record
C12_UnreachableIsNotRecorded ==
    SendFailed =>
        /\ req.response # None
        /\ req.response[1].status = 502
        /\ NothingRecorded

\* the upstream answered with an error status
AnsweredError == Answered /\ req.upstream[1].status >= 400

\* the status, the capped body and its content-length reach the client, and
\* one finalized record with the status is inserted by record
ErrorPassedAndRecorded ==
    /\ req.pc = "done"
    /\ req.response # None
    /\ req.response[1].status = req.upstream[1].status
    /\ req.response[1].body.len <= MaxBodySize
    /\ header_values(req.response[1].headers, "content-length")
           = {ToString(req.response[1].body.len)}
    /\ Len(records) >= 1
    /\ OneRecordMore
    /\ last.op = "record"
    /\ newest.id = last.id
    /\ newest.id \notin pending_ids
    /\ newest.status = req.upstream[1].status
    /\ newest.error_body # None

\* C13 (as claimed): an upstream status >= 400 is passed on with at most
\* max_body_size bytes of the body and the matching content-length, and one
\* record is inserted by record with that status and the error_body
\* "HTTP <status> (<n> bytes)"
C13_ErrorPassedWithMarker ==
    AnsweredError =>
        /\ ErrorPassedAndRecorded
        /\ newest.error_body[1] =
               <<"HTTP ", ToString(req.upstream[1].status), " (",
                 ToString(req.response[1].body.len), " bytes)">>

\* C13 (amended): ... and the error_body "HTTP <status> <reason> (<n> bytes)",
\* the reason being the canonical reason phrase of the status or
\* "<unknown status code>"
C13_ErrorPassedWithReasonMarker ==
    AnsweredError =>
        /\ ErrorPassedAndRecorded
        /\ \E reason \in {"Too Many Requests", "Internal Server Error",
                          "<unknown status code>"} :
              /\ reason = "Too Many Requests" <=> req.upstream[1].status = 429
              /\ reason = "Internal Server Error"
                     <=> req.upstream[1].status = 500
              /\ newest.error_body[1] =
                     <<"HTTP ", ToString(req.upstream[1].status), " ", reason,
                       " (", ToString(req.response[1].body.len), " bytes)">>

\* a 500 whose body is longer than max_body_size and whose content-length
\* header is replaced
C13_Witness ==
    /\ AnsweredError
    /\ req.upstream[1].status = 500
    /\ req.upstream[1].body.chunks = <<30, 30, 30>>
    /\ header_get(req.upstream[1].headers, "content-length") = Some("2")
    /\ req.response[1].body.len = MaxBodySize
    /\ newest.error_body =
           Some(<<"HTTP ", "500", " ", "Internal Server Error", " (",
                  ToString(MaxBodySize), " bytes)">>)

\* the body of the request is longer than max_body_size or is not JSON
Rejected ==
    /\ req.body # None
    /\ \/ byte_len(req.body[1]) > MaxBodySize
       \/ req.body[1].kind = "invalid"

\* C14: a request whose body exceeds max_body_size or is not empty and not
\* JSON is answered 400; the router and the classifier are not consulted,
\* nothing is sent upstream and no record is inserted
C14_BadBodyIs400 ==
    Rejected =>
        /\ req.pc = "done"
        /\ req.response # None
        /\ req.response[1].status = 400
        /\ req.route = None
        /\ ~req.classifier_called
        /\ req.reply = NoReply
        /\ req.sent = None
        /\ ~Answered
        /\ NothingRecorded

\* an oversized body was refused by a proxy whose store holds a record
C14_Witness ==
    /\ Rejected
    /\ req.body[1].kind = "oversize"
    /\ req.response = Some(into_response(400, "failed to read body"))
    /\ records = <<Earlier>>

\* C17 (as claimed): past the stub, a route with a model rewrite and a body
\* that is non-empty JSON give an upstream body that is the client's JSON
\* with model set to the rewrite and the other fields unchanged, with its
\* byte length as content-length; a route without a rewrite gives the
\* client's body byte for byte
C17_RewriteSetsModelOnly ==
    (Forwarded /\ ~Stubbed) =>
        IF req.route[1].model_rewrite # None
        THEN req.body[1].kind \in {"json", "value"} =>
                /\ req.sent # None
                /\ req.sent[1].body.kind = req.body[1].kind
                /\ req.sent[1].body.model = req.route[1].model_rewrite
                /\ req.sent[1].body.messages = req.body[1].messages
                /\ header_values(req.sent[1].headers, "content-length")
                       = {ToString(byte_len(req.sent[1].body))}
        ELSE /\ req.sent # None
             /\ req.sent[1].body = req.body[1]

\* the same for the bodies that are JSON objects
C17_RewriteOfObjects ==
    (Forwarded /\ ~Stubbed /\ req.body[1].kind # "value") =>
        IF req.route[1].model_rewrite # None
        THEN req.body[1].kind = "json" =>
                /\ req.sent # None
                /\ req.sent[1].body.kind = "json"
                /\ req.sent[1].body.model = req.route[1].model_rewrite
                /\ req.sent[1].body.messages = req.body[1].messages
                /\ req.sent[1].body.spaces = 0
                /\ header_values(req.sent[1].headers, "content-length")
                       = {ToString(byte_len(req.sent[1].body))}
        ELSE /\ req.sent # None
             /\ req.sent[1].body = req.body[1]

\* a body that is JSON but no object reached the rewrite: the handler
\* panicked, answered nothing and sent nothing
C17_Panicked ==
    /\ req.pc = "panicked"
    /\ req.body[1].kind = "value"
    /\ req.route[1].model_rewrite # None
    /\ req.sent = None
    /\ req.response = None

\* C18: the step in which the upstream's answer arrives inserts one record,
\* by record if the status is >= 400 and by record_pending if it is below;
\* no other step of the request changes the number of records or their
\* IDs, and finalize_stream updates the pending record where it is
C18_OneRecordPerAnswer ==
    [][ /\ (~Answered /\ Answered') =>
              /\ records' \in { Append(records, r) : r \in {newest'} }
              /\ newest'.id \notin ids(records)
              /\ IF req'.upstream[1].status >= 400
                 THEN last'.op = "record" /\ newest'.id \notin pending_ids'
                 ELSE /\ last'.op = "record_pending"
                      /\ newest'.id \in pending_ids'
                      /\ req'.record_id = newest'.id
        /\ (Answered \/ ~Answered') =>
              /\ Len(records') = Len(records)
              /\ \A i \in DOMAIN records : records'[i].id = records[i].id
        /\ (req.pc = "streaming" /\ req'.pc = "done") =>
              /\ last'.op = "finalize_stream"
              /\ last'.id = req.record_id
              /\ \A i \in DOMAIN records :
                    records[i].id # req.record_id => records'[i] = records[i]
      ]_vars

\* a streamed response ended: the store holds the earlier record and the
\* request's, finalized with the tokens of the upstream's header
C18_Witness ==
    /\ req.pc = "done"
    /\ Answered
    /\ req.upstream[1].status < 400
    /\ last.op = "finalize_stream"
    /\ Len(records) = 2
    /\ records[1] = Earlier
    /\ records[2].id = req.record_id
    /\ records[2].output_tokens = 7


(***************************************************************************)
(* Claims about the log, checked under LogSpec.                            *)
(***************************************************************************)
\* the number of the record a line was logged for
line_no(line) == line.entry.model[2]

\* the numbers of the lines of a rotated file
numbers(i) ==
    IF files.rotated[i] = None THEN {}
    ELSE { line_no(files.rotated[i][1][k]) : k \in DOMAIN files.rotated[i][1] }

\* every rotated file holds older lines than the rotated files of lower
\* index and than the active file, and its own lines oldest first
NewestFirst ==
    /\ \A i \in Indices, j \in Indices :
          i < j => \A a \in numbers(i), b \in numbers(j) : b < a
    /\ \A i \in Indices :
          /\ \A b \in numbers(i), k \in DOMAIN files.active :
                b < line_no(files.active[k])
          /\ files.rotated[i] # None =>
                \A k, l \in DOMAIN files.rotated[i][1] :
                    k < l => line_no(files.rotated[i][1][k])
                                 < line_no(files.rotated[i][1][l])

\* the step is a call of write_line
Wrote == log_hist'.written = log_hist.written + 1

\* the active file as the write leaves it, before any rotation
Left == Append(files.active, Line(log_hist.written + 1))

\* C19: a write that leaves the active file at max_size_mb MiB or more
\* puts the active file's content in path.1, moves each path.i that exists
\* to path.(i+1) for 1 <= i < max_files, deletes the former path.max_files
\* and leaves an empty active file (a write that leaves it below changes
\* nothing else); the rotated files stay ordered newest to oldest
C19_RotationShiftsAndKeepsOrder ==
    /\ [][ Wrote =>
             IF file_size(Left) >= logcfg.max_size_mb * 1048576
             THEN /\ files'.active = <<>>
                  /\ files'.rotated[1] = Some(Left)
                  /\ \A i \in 1..(logcfg.max_files - 1) :
                        files.rotated[i] # None =>
                            files'.rotated[i + 1] = files.rotated[i]
                  /\ logcfg.max_files # 1 =>
                        (files.rotated[logcfg.max_files] # None =>
                            files'.rotated[logcfg.max_files]
                                # files.rotated[logcfg.max_files])
                  /\ \A i \in Indices :
                        i > logcfg.max_files /\ i > 1 =>
                            files'.rotated[i] = files.rotated[i]
             ELSE files' = [files EXCEPT !.active = Left]
         ]_vars
    /\ []NewestFirst

\* a file of exactly 1 MiB was rotated while path.1 existed: path.1 and
\* path.2 hold two lines each and the active file is empty
C19_Witness ==
    /\ logcfg = [max_size_mb |-> 1, max_files |-> 2]
    /\ log_hist.initial = NoFiles
    /\ log_hist.written = 4
    /\ files.active = <<>>
    /\ files.rotated[1] = Some(<<Line(3), Line(4)>>)
    /\ files.rotated[2] = Some(<<Line(1), Line(2)>>)

\* three lines were written to a new log with max_size_mb = 0 and
\* max_files = 2
ThreeWrites ==
    /\ logcfg = [max_size_mb |-> 0, max_files |-> 2]
    /\ log_hist.initial = NoFiles
    /\ log_hist.written = 3

\* the log was replayed after the third write
Replayed == log_hist.replayed = Some(3)

\* the models of the records of the store, in order
models == [i \in DOMAIN records |-> records[i].model]

\* C20 (as claimed): after the third write the active file holds line 3,
\* path.1 line 2, path.2 line 1 and there is no path.3; the replay gives
\* three records, line 1, line 2, line 3
C20_ThreeLinesKept ==
    ThreeWrites =>
        /\ files.active = <<Line(3)>>
        /\ files.rotated[1] = Some(<<Line(2)>>)
        /\ files.rotated[2] = Some(<<Line(1)>>)
        /\ files.rotated[3] = None
        /\ Replayed =>
               models = << <<"line", 1>>, <<"line", 2>>, <<"line", 3>> >>

\* C20 (amended): after the third write the active file is empty, path.1
\* holds line 3, path.2 line 2, line 1 is deleted and there is no path.3;
\* the replay gives two records, line 2 and line 3
C20_TwoLinesKept ==
    ThreeWrites =>
        /\ files.active = <<>>
        /\ files.rotated[1] = Some(<<Line(3)>>)
        /\ files.rotated[2] = Some(<<Line(2)>>)
        /\ files.rotated[3] = None
        /\ files.rotated[0] = None
        /\ Replayed =>
               /\ models = << <<"line", 2>>, <<"line", 3>> >>
               /\ [i \in DOMAIN records |-> records[i].id] = <<1, 2>>

\* the three lines were written and the log replayed
C20_Witness ==
    /\ ThreeWrites
    /\ Replayed
    /\ Len(records) = 2

\* C21 (as claimed): whatever max_files is, no rotated file path.k with
\* k > max_files exists after any number of write_line calls
C21_NoFileBeyondMaxFiles ==
    \A k \in Indices : k > logcfg.max_files => files.rotated[k] = None

\* the same for a max_files of at least 1
C21_NoFileBeyondPositiveMaxFiles ==
    logcfg.max_files >= 1 => C21_NoFileBeyondMaxFiles

\* with max_files = 0 a rotation has left path.1 behind
C21_RotatedWithoutFiles ==
    /\ logcfg.max_files = 0
    /\ log_hist.initial = NoFiles
    /\ files.rotated[1] # None

\* C22: the records of a replay are in the order of the files path.max_files
\* .. path.1, active and of the lines in each, and their IDs increase in
\* that order: a line logged earlier never has the larger ID
C22_ReplayIdsFollowLogOrder ==
    log_hist.replayed # None =>
        \A i, j \in DOMAIN records :
            i < j => /\ records[i].id < records[j].id
                     /\ records[i].model[2] < records[j].model[2]

\* two rotated files and the active file were replayed
C22_Witness ==
    /\ log_hist.replayed = Some(log_hist.written)
    /\ logcfg.max_files = 2
    /\ files.rotated[2] # None
    /\ files.rotated[1] # None
    /\ files.active # <<>>
    /\ [i \in DOMAIN records |-> records[i].id] = <<1, 2, 3, 4, 5>>
    /\ models = [i \in 1..5 |-> <<"line", i - 1>>]

(***************************************************************************)
(* Claims about the replay of damaged logs, checked under HistorySpec.     *)
(***************************************************************************)
\* the lines of path.max_files .. path.1 and the active file, in this order
AllLines ==
    (IF logcfg.max_files >= 2 /\ files.rotated[2] # None
     THEN files.rotated[2][1] ELSE <<>>)
    \o (IF files.rotated[1] # None THEN files.rotated[1][1] ELSE <<>>)
    \o files.active

\* the wall-clock time and the model of each record of the store
Replica == [i \in DOMAIN records |-> <<records[i].wallclock, records[i].model>>]

\* the wall-clock time and the model of each line of a sequence
Entries(lines) ==
    [i \in DOMAIN lines |-> <<lines[i].entry.timestamp, lines[i].entry.model>>]

\* C24 (as claimed): the replay inserts every line that is a log entry not
\* older than the retention cutoff, in order, and nothing for the empty,
\* damaged and older lines and the missing files
C24_ReplayKeepsRecentEntries ==
    log_hist.replayed # None =>
        Replica = Entries(SelectSeq(AllLines,
                      LAMBDA l : /\ l.text = "json"
                                 /\ l.entry.timestamp >= now - Window))

\* C24 (amended): ... every line that is a log entry not older than the
\* cutoff and not stamped later than the current wall-clock time
C24_ReplayKeepsRecentPastEntries ==
    log_hist.replayed # None =>
        Replica = Entries(SelectSeq(AllLines,
                      LAMBDA l : /\ l.text = "json"
                                 /\ l.entry.timestamp >= now - Window
                                 /\ l.entry.timestamp <= now))

\* a directory without path.2, with an old line in path.1 and a damaged
\* line before an entry at the cutoff in the active file was replayed
C24_Witness ==
    /\ log_hist.replayed # None
    /\ logcfg.max_files = 2
    /\ files.rotated[2] = None
    /\ files.rotated[1] = Some(<<StampedLine(3, MaxTime - Window - 1)>>)
    /\ files.active = <<BadLine(6, "not json"),
                        StampedLine(2, MaxTime - Window)>>
    /\ Len(records) = 1
    /\ records[1].model = <<"line", 2>>

(***************************************************************************)
(* Claims about a log written by the proxy and replayed, checked under     *)
(* ProxyLogSpec.                                                           *)
(***************************************************************************)
\* the attached process replayed the log and took a snapshot, every written
\* line being within retention
SnapshotOfReplay ==
    /\ log_hist.replayed # None
    /\ last.op = "snapshot"
    /\ \A i \in DOMAIN log_hist.lines :
          log_hist.lines[i].entry.timestamp >= now - Window

\* the log entries of the records of the last snapshot
SnapshotEntries == [i \in DOMAIN last.result |-> log_entry(last.result[i])]

\* the log entries of the written lines, in the order of writing
WrittenEntries == [i \in DOMAIN log_hist.lines |-> log_hist.lines[i].entry]

\* a sequence of log entries is in the order of its wall-clock timestamps
SortedByWallTs(entries) ==
    \A i, j \in DOMAIN entries :
        i < j => entries[i].timestamp <= entries[j].timestamp

\* C23 (as claimed): the snapshot of a replayed log, sorted by wall_ts, is
\* the sequence of records in the order they were written
C23_ReplaySortedByWallTsIsWriteOrder ==
    SnapshotOfReplay =>
        /\ SnapshotEntries = WrittenEntries
        /\ SortedByWallTs(SnapshotEntries)

\* C23 (amended): the snapshot of a replayed log, in the order snapshot
\* returns it, is the sequence of records in the order they were written
C23_ReplayIsWriteOrder ==
    SnapshotOfReplay => SnapshotEntries = WrittenEntries

\* a stream accepted first and completed last: its line is the second one
\* and carries the earlier wall-clock time
C23_Witness ==
    /\ SnapshotOfReplay
    /\ Len(last.result) = 2
    /\ last.result[1].model = ErrorSample.model
    /\ last.result[2].model = PendingSample.model
    /\ last.result[2].wallclock < last.result[1].wallclock

(***************************************************************************)
(* Claims about tail_log, checked under TailSpec.                          *)
(***************************************************************************)
\* a step of tail_log's loop that found the file (a write changes the files,
\* a poll never does)
Polled == last'.op = "poll" /\ files' = files /\ position # None

\* the records a step appended to the store, as <<wall-clock time, model>>
Appended ==
    [i \in 1..(Len(records') - Len(records)) |->
        <<records'[Len(records) + i].wallclock,
          records'[Len(records) + i].model>>]

\* the lines of the active file from line number k + 1 on
LinesAfter(k) ==
    [i \in 1..(Len(files.active) - k) |->
        <<files.active[k + i].entry.timestamp, files.active[k + i].entry.model>>]

\* C25: a poll of a file shorter than the position reads it from byte 0, a
\* poll of a file as long as the position changes nothing, any other poll
\* reads the lines from the position to the end; the position advances by
\* the bytes read and each line read is appended to the store; a poll that
\* finds no file changes neither; tail_log starts at the length of the file
C25_PollFollowsActiveFile ==
    [][/\ Polled =>
            LET size == Len(files.active) * LineBytes
                pos == position[1]
            IN  /\ SubSeq(records', 1, Len(records)) = records
                /\ size < pos =>
                      /\ position' = Some(size)
                      /\ Appended = LinesAfter(0)
                /\ size = pos =>
                      /\ position' = position
                      /\ records' = records
                /\ size > pos =>
                      /\ position' = Some(pos + (size - pos))
                      /\ Appended = LinesAfter(pos \div LineBytes)
       /\ last'.op = "poll: no file" /\ files' = files =>
            /\ position' = position
            /\ records' = records
       /\ position = None /\ position' # None =>
            position' = Some(Len(files.active) * LineBytes)
      ]_vars

\* tail_log started at three lines, the file was rotated and written to,
\* and a poll read the shorter file from its start
C25_Witness ==
    /\ last.op = "poll"
    /\ log_hist.tail_from = Some(3 * LineBytes)
    /\ position = Some(LineBytes)
    /\ files.active = <<Line(4)>>
    /\ files.rotated[1] # None
    /\ models = <<<<"line", 0>>, <<"line", 1>>, <<"line", 2>>, <<"line", 4>>>>

(***************************************************************************)
(* Claims about the eviction task, checked under ServeLive.                *)
(***************************************************************************)
\* the store holds the record with this ID
Held(id) == id \in ids(records)

\* the store holds the record with this ID, older than the retention window
Expired(id) == \E i \in DOMAIN records :
                  records[i].id = id /\ now - records[i].timestamp > Window

\* C26: in every serving mode, a record whose age exceeds the retention
\* window is eventually removed from the store
C26_ExpiredIsEvicted == \A id \in 1..MaxIds : Expired(id) ~> ~Held(id)

\* the same for a proxy that was started with a terminal
C26_ExpiredIsEvictedWithTui ==
    \A id \in 1..MaxIds :
        (evictor.pc = "sleeping" /\ Expired(id)) ~> ~Held(id)

\* a proxy without a terminal holds a record older than the window
C26_HeadlessKeepsExpired ==
    /\ evictor = NoEvictor
    /\ Expired(1)
    /\ now = MaxTime

(***************************************************************************)
(* Claims about a log that cannot be written, checked under Spec.          *)
(***************************************************************************)
\* the store has a logger and the last operation's write_line failed: no
\* line reached the log
WriteFailed == logger /\ written = <<>>

\* the record of the last operation is in the snapshot taken now, if it is
\* within the retention window
InSnapshot(r) ==
    r.timestamp >= now - Window =>
        \E i \in DOMAIN filter(records, now - Window) :
            filter(records, now - Window)[i] = r

\* C27: a record whose line could not be written is inserted all the same,
\* a stream whose line could not be written is updated all the same, and
\* both are visible to snapshot
C27_WriteFailureKeepsRecord ==
    /\ WriteFailed /\ last.op = "record" =>
          /\ Len(records) > 0
          /\ records[Len(records)].id = last.id
          /\ lookup(last.id) = Some(Len(records) - 1)
          /\ InSnapshot(records[Len(records)])
    /\ WriteFailed /\ last.op = "finalize_stream" /\ lookup(last.id) # None =>
          /\ records[lookup(last.id)[1] + 1].output_tokens = last.output_tokens
          /\ records[lookup(last.id)[1] + 1].duration = last.duration
          /\ InSnapshot(records[lookup(last.id)[1] + 1])

\* the second record of a store with a logger was inserted although its
\* line could not be written
C27_Witness ==
    /\ WriteFailed
    /\ last.op = "record"
    /\ last.id = 2
    /\ Len(records) = 2
    /\ records[2].id = 2

(***************************************************************************)
(* Claims about the validation of the configuration, checked under         *)
(* ConfigSpec.                                                             *)
(***************************************************************************)
\* from_config has returned
Validated == last.op = "from_config"

\* a route or the default names a provider that is not defined
UndefinedProvider ==
    \/ config.default.provider \notin DOMAIN config.providers
    \/ \E i \in DOMAIN config.routes :
          config.routes[i].provider \notin DOMAIN config.providers

\* a pattern is not a valid regex
InvalidRegex ==
    \E i \in DOMAIN config.routes :
        config.routes[i].pattern # None /\ ~config.routes[i].pattern[1].valid

\* the auto-router is enabled with an empty URL
AutoRouterWithoutUrl == config.auto_router.enabled /\ config.auto_router.url = ""

\* a route has a description and no name
DescriptionWithoutName ==
    \E i \in DOMAIN config.routes :
        config.routes[i].description # None /\ config.routes[i].name = None

\* a route has neither a pattern nor a description
NeitherPatternNorDescription ==
    \E i \in DOMAIN config.routes :
        config.routes[i].pattern = None /\ config.routes[i].description = None

\* C28: from_config returns an error and no router for an undefined
\* provider, an invalid regex, an enabled auto-router without URL, a
\* description without name, and a route with neither pattern nor
\* description
C28_InvalidConfigIsRefused ==
    Validated =>
        /\ UndefinedProvider => ~router.ok
        /\ InvalidRegex => ~router.ok
        /\ AutoRouterWithoutUrl => ~router.ok
        /\ DescriptionWithoutName => ~router.ok
        /\ NeitherPatternNorDescription => ~router.ok
        /\ ~router.ok => DOMAIN router = {"ok", "err"}

\* a configuration whose only fault is a pattern that is no regex was
\* refused with that error
C28_Witness ==
    /\ Validated
    /\ InvalidRegex
    /\ ~UndefinedProvider
    /\ ~AutoRouterWithoutUrl
    /\ ~DescriptionWithoutName
    /\ ~NeitherPatternNorDescription
    /\ router = [ok |-> FALSE, err |-> "invalid regex"]

\* two routes carry the same name
SharedName ==
    \E i, j \in DOMAIN config.routes :
        /\ i # j
        /\ config.routes[i].name # None
        /\ config.routes[i].name = config.routes[j].name

\* two routes with a description carry the same name
SharedCandidateName ==
    \E i, j \in DOMAIN config.routes :
        /\ i # j
        /\ config.routes[i].name # None
        /\ config.routes[i].description # None
        /\ config.routes[j].description # None
        /\ config.routes[i].name = config.routes[j].name

\* C29 (as claimed): from_config returns an error if two routes share a
\* name
C29_SharedNameIsRefused == Validated /\ SharedName => ~router.ok

\* C29 (amended): from_config returns an error if two routes that have a
\* name and a description share the name
C29_SharedCandidateNameIsRefused ==
    Validated /\ SharedCandidateName => ~router.ok

\* two described routes named coding, valid otherwise, were refused as
\* duplicates
C29_Witness ==
    /\ Validated
    /\ SharedCandidateName
    /\ ~UndefinedProvider
    /\ ~InvalidRegex
    /\ ~AutoRouterWithoutUrl
    /\ router = [ok |-> FALSE, err |-> "duplicate route name"]

(***************************************************************************)
(* Claims about the content of a log line, checked under Spec.             *)
(***************************************************************************)
\* the record of the store the last operation logged
Logging == records[lookup(last.id)[1] + 1]

\* the line the last operation wrote has these keys and the values of the
\* record: the wall-clock timestamp, the model, the name of the route's
\* provider under the key source, the status, the duration in whole
\* milliseconds, the token counts and the error body or null
LineOf(keys, source) ==
    /\ Len(written) = 1
    /\ DOMAIN written[1] = keys
    /\ source \in DOMAIN written[1]
    /\ written[1][source] = Logging.provider
    /\ written[1].timestamp = Logging.wallclock
    /\ written[1].model = Logging.model
    /\ written[1].status = Logging.status
    /\ written[1].duration_ms = Logging.duration \div TicksPerMilli
    /\ written[1].input_tokens = Logging.input_tokens
    /\ written[1].output_tokens = Logging.output_tokens
    /\ written[1].error = Logging.error_body

\* C30 (as claimed): every line written is an object with the eight keys
\* timestamp, model, provider, status, duration_ms, input_tokens,
\* output_tokens, error
C30_LineHasProviderKey ==
    written # <<>> =>
        LineOf({"timestamp", "model", "provider", "status", "duration_ms",
                "input_tokens", "output_tokens", "error"}, "provider")

\* C30 (amended): every line written is an object with the eight keys
\* timestamp, model, backend, status, duration_ms, input_tokens,
\* output_tokens, error
C30_LineHasBackendKey ==
    written # <<>> =>
        LineOf({"timestamp", "model", "backend", "status", "duration_ms",
                "input_tokens", "output_tokens", "error"}, "backend")

\* finalize_stream wrote the line of a stream without error body
C30_Witness ==
    /\ last.op = "finalize_stream"
    /\ written # <<>>
    /\ written[1].backend = "anthropic"
    /\ written[1].error = None
    /\ written[1].output_tokens = 7

(***************************************************************************)
(* Claims about concurrent calls on the store, checked under LockSpec.     *)
(***************************************************************************)
\* this step is the locked part of finalize_stream(id): the lookup in
\* id_index and the update of the record
Finalizes(id) ==
    /\ id \in DOMAIN streams
    /\ streams[id].pc = "finalize: lock records"
    /\ streams'[id].pc = "finalized"

\* id_index holds the current position of the record with this ID, or no
\* position if the store holds no such record
PositionValid(id) ==
    IF id \in ids(records)
    THEN /\ id \in DOMAIN id_index
         /\ id_index[id] < Len(records)
         /\ records[id_index[id] + 1].id = id
    ELSE id \notin DOMAIN id_index

\* C31: the locked part of finalize_stream never runs while evict_expired
\* is between its retain and the end of its rebuild, and the position it
\* reads from id_index is the current position of its record
C31_FinalizeSerializesWithEviction ==
    [][\A id \in 1..MaxCalls :
          Finalizes(id) =>
              /\ evictor.pc # "evict: lock index"
              /\ records_lock.w = None
              /\ PositionValid(id)
              /\ \A i \in DOMAIN records :
                    records[i].id # id => records'[i] = records[i]]_vars

\* a stream was finalized at position 0 after the eviction of the record
\* before it had moved it from position 1
C31_Witness ==
    /\ 1 \in DOMAIN streams
    /\ streams[1].pc = "finalized"
    /\ inserted_idx[1] = 1
    /\ id_index = <<0>>
    /\ Len(records) = 1
    /\ records[1].id = 1
    /\ records[1].duration = streams[1].called[1].duration
    /\ records[1].output_tokens = streams[1].called[1].output_tokens

\* the thread of call id is inside record, record_pending or finalize_stream
InCall(id) ==
    /\ id \in DOMAIN streams
    /\ streams[id].pc \in {"record: lock records", "record: lock index",
                           "pending: lock records", "pending: lock index",
                           "finalize: lock index", "finalize: lock records"}

\* C32: every call of record, record_pending, finalize_stream and
\* evict_expired eventually returns, whatever the interleaving
C32_EveryCallReturns ==
    /\ \A id \in 1..MaxCalls : InCall(id) ~> ~InCall(id)
    /\ (evictor.pc # "sleeping") ~> (evictor.pc = "sleeping")

\* finalize_stream holds the read lock of id_index and waits for the write
\* lock of records; its holder, inside record or record_pending, waits for
\* the write lock of id_index; snapshot waits for records as well
C32_InsertAndFinalizeStuck ==
    \E id, other \in DOMAIN streams :
        /\ streams[id].pc = "finalize: lock records"
        /\ index_lock.r = {task(id)}
        /\ records_lock.w = Some(handler(other))
        /\ streams[other].pc \in {"record: lock index", "pending: lock index"}
        /\ ~can_read(records_lock)

\* the record with this ID before and after the step, if the store holds it
\* in both states
Before(id) == records[CHOOSE i \in DOMAIN records : records[i].id = id]
After(id) == records'[CHOOSE i \in DOMAIN records' : records'[i].id = id]

\* C33: finalize_stream is called at most once for a record; only the
\* locked part of that call changes the record, and it changes nothing but
\* output_tokens and duration; the monotonic timestamp never changes
C33_FinalizedAtMostOnce ==
    [][\A id \in 1..MaxCalls :
          /\ (/\ id \in DOMAIN streams
              /\ streams[id].pc # "finalize: lock index"
              /\ streams'[id].pc = "finalize: lock index")
                 => /\ streams[id].called = None
                    /\ id \in pending_ids
          /\ (id \in ids(records) /\ id \in ids(records')) =>
                /\ After(id).timestamp = Before(id).timestamp
                /\ After(id) # Before(id) =>
                      /\ Finalizes(id)
                      /\ After(id) = [Before(id) EXCEPT
                            !.output_tokens = streams[id].called[1].output_tokens,
                            !.duration = streams[id].called[1].duration]]_vars

\* the stream was finalized by its one call, after two ticks and without a
\* token header
C33_Witness ==
    /\ 1 \in DOMAIN streams
    /\ streams[1].pc = "finalized"
    /\ streams[1].called = Some([output_tokens |-> 0, duration |-> 2])
    /\ 1 \in ids(records)
    /\ records[1].duration = 2
    /\ records[1].timestamp = 0

\* C34: whenever nobody holds the write lock of records, id_index maps
\* exactly the IDs of the records of the sequence, each to its position
C34_IndexMatchesRecordsWhenUnlocked ==
    records_lock.w = None =>
        /\ DOMAIN id_index = ids(records)
        /\ \A i \in DOMAIN records : id_index[records[i].id] = i - 1

\* the second record pushed is alone in the store, at position 0, after an
\* eviction that returned
C34_Witness ==
    /\ records_lock.w = None
    /\ evictor = IdleEvictor
    /\ Len(issued) = 2
    /\ Len(records) = 1
    /\ records[1].id = issued[2]
    /\ inserted_idx[issued[2]] = 1
    /\ id_index[issued[2]] = 0

\* the place of an ID in the order in which the records were pushed
PushedAt(id) == CHOOSE k \in DOMAIN issued : issued[k] = id

\* C35 (as claimed): the records are in the order of strictly increasing ID
C35_OrderedById ==
    \A i, j \in DOMAIN records : i < j => records[i].id < records[j].id

\* C35 (amended): the records have distinct IDs and are in the order in
\* which record and record_pending pushed them under the records lock
C35_OrderedByPush ==
    \A i, j \in DOMAIN records :
        i < j => /\ records[i].id # records[j].id
                 /\ PushedAt(records[i].id) < PushedAt(records[j].id)

\* the call that took the second ID pushed its record first; both calls
\* have returned
C35_Witness ==
    /\ records_lock.w = None
    /\ Len(records) = 2
    /\ records[1].id = 2
    /\ records[2].id = 1
    /\ id_index[2] = 0
    /\ id_index[1] = 1

(***************************************************************************)
(* Claims about the frame of the store operations, checked under Spec.     *)
(***************************************************************************)
\* C36: finalize_stream(id, o, d) sets output_tokens and duration of the
\* record with that ID and leaves every other record, every other field,
\* the length and order of the sequence, id_index and the ID counter alone
C36_FinalizeChangesTwoFields ==
    [][last'.op = "finalize_stream" =>
          /\ Len(records') = Len(records)
          /\ id_index' = id_index
          /\ next_id' = next_id
          /\ \A i \in DOMAIN records :
                records'[i] =
                    IF records[i].id = last'.id
                    THEN [id |-> records[i].id,
                          timestamp |-> records[i].timestamp,
                          wallclock |-> records[i].wallclock,
                          model |-> records[i].model,
                          provider |-> records[i].provider,
                          routing_method |-> records[i].routing_method,
                          status |-> records[i].status,
                          duration |-> last'.duration,
                          input_tokens |-> records[i].input_tokens,
                          output_tokens |-> last'.output_tokens,
                          error_body |-> records[i].error_body]
                    ELSE records[i]]_vars

\* the second of two records was finalized with 7 tokens and 3 ticks; the
\* first has the values it was recorded with
C36_Witness ==
    /\ last.op = "finalize_stream"
    /\ last.id = 2
    /\ Len(records) = 2
    /\ records[2].id = 2
    /\ records[2].output_tokens = 7
    /\ records[2].duration = 3
    /\ records[2].model = PendingSample.model
    /\ records[1] = [Stamped(ErrorSample, records[1].timestamp) EXCEPT !.id = 1]


\* C37: evict_expired does not change what snapshot returns at the same
\* clock value: the live records before and after the eviction are the same
\* records in the same order
C37_EvictionKeepsSnapshot ==
    [][last'.op = "evict_expired" =>
          /\ now' = now
          /\ filter(records', now' - Window) = filter(records, now - Window)
          /\ filter(records', now' - Window) = records']_vars

\* an eviction removed an expired record and kept a record that is exactly
\* Window old
C37_Witness ==
    /\ last.op = "evict_expired"
    /\ Len(last.result) >= 1
    /\ \E i \in DOMAIN records : records[i].timestamp = now - Window


(***************************************************************************)
(* Claims about an attached process as a whole, checked under TailSpec.    *)
(***************************************************************************)
\* how many records of a store come from the k-th line the proxy logged
Copies(recs, k) ==
    Cardinality({i \in DOMAIN recs : recs[i].model = <<"line", k>>})

\* C38: every line appended to the log since the replay started is in the
\* attached store exactly once after each poll that found the file, and no
\* line is in the store twice, whatever the proxy wrote and rotated between
\* the replay, the start of tail_log and the polls
C38_EveryLineInsertedOnce ==
    [][Polled =>
          \A k \in 0..log_hist.written :
              /\ Copies(records', k) <= 1
              /\ k > log_hist.replayed[1] => Copies(records', k) = 1]_vars

\* the line written between load_history and the start of tail_log is
\* behind the first position: the polls found nothing to read
C38_LostBeforeTail ==
    /\ last.op = "poll"
    /\ log_hist.replayed = Some(0)
    /\ log_hist.written = 1
    /\ log_hist.tail_from = Some(LineBytes)
    /\ files.active = <<Line(1)>>
    /\ position = Some(LineBytes)
    /\ records = <<>>

\* the line that filled the active file went to path.1 with it: the poll
\* before the rotation read line 1, the poll after it found an empty file
C38_LostAtRotation ==
    /\ last.op = "poll"
    /\ log_hist.replayed = Some(0)
    /\ log_hist.tail_from = Some(0)
    /\ log_hist.written = 2
    /\ files.active = <<>>
    /\ files.rotated[1] = Some(<<Line(1), Line(2)>>)
    /\ position = Some(0)
    /\ models = <<<<"line", 1>>>>


(***************************************************************************)
(* Claims about a log line read back, checked under ProxyLogSpec.          *)
(***************************************************************************)
\* what parse_log_entry returns for the line the last operation wrote
ReadBack == parse_log_entry(json_line(written[1]))

\* C39: every line the store writes is accepted by parse_log_entry, at the
\* time of writing and at any later time, and the parsed record has the
\* wall-clock timestamp, model, provider, status, token counts and error
\* body of the record written and its duration in whole milliseconds
C39_WrittenLineParsesBack ==
    /\ written # <<>> =>
          /\ ReadBack # None
          /\ ReadBack[1].wallclock = Logging.wallclock
          /\ ReadBack[1].model = Logging.model
          /\ ReadBack[1].provider = Logging.provider
          /\ ReadBack[1].status = Logging.status
          /\ ReadBack[1].input_tokens = Logging.input_tokens
          /\ ReadBack[1].output_tokens = Logging.output_tokens
          /\ ReadBack[1].error_body = Logging.error_body
          /\ ReadBack[1].duration =
                 (Logging.duration \div TicksPerMilli) * TicksPerMilli
    /\ \A i \in DOMAIN log_hist.lines :
          /\ parse_log_entry(log_hist.lines[i]) # None
          /\ log_entry(parse_log_entry(log_hist.lines[i])[1]) =
                 log_hist.lines[i].entry

\* finalize_stream logged a stream of 3 ticks, one and a half milliseconds,
\* after the line of an error; the line reads back with one millisecond
C39_Witness ==
    /\ last.op = "finalize_stream"
    /\ written # <<>>
    /\ Logging.duration = 3
    /\ Logging.error_body = None
    /\ ReadBack # None
    /\ ReadBack[1].duration = 2
    /\ Len(log_hist.lines) = 2
    /\ log_hist.lines[1].entry.error # None


(***************************************************************************)
(* Claims about repeated headers, checked under HeaderSpec.                *)
(***************************************************************************)
\* the values a map holds for a name, in the order of the map
ValuesInOrder(headers, name) ==
    LET entries == SelectSeq(headers, LAMBDA e : e[1] = name)
    IN  [i \in DOMAIN entries |-> entries[i][2]]

\* the names build_forwarding_headers drops or sets itself for this call
NotCopied ==
    forwarded_dropped(hdr.route[1].strip_auth)
        \cup {"accept-encoding"}
        \cup (IF hdr.route[1].api_key # None THEN {"x-api-key"} ELSE {})
        \cup (IF hdr.body_len > 0 THEN {"content-length"} ELSE {})

\* C40: every header of the client that is not dropped or set by the proxy
\* reaches the upstream, and every header of the upstream that is not
\* dropped reaches the client, with every one of its values, in order
C40_EveryValueForwarded ==
    /\ hdr.op = "build_forwarding_headers" =>
          \A name \in header_names(hdr.original) \ NotCopied :
              ValuesInOrder(hdr.result, name) =
                  ValuesInOrder(hdr.original, name)
    /\ hdr.op = "filter_response_headers" =>
          \A name \in header_names(hdr.original) \ response_dropped :
              ValuesInOrder(hdr.result, name) =
                  ValuesInOrder(hdr.original, name)

\* of two set-cookie lines of the upstream the client gets the second
C40_SetCookieLost ==
    /\ hdr.op = "filter_response_headers"
    /\ hdr.original = << <<"set-cookie", "a=1">>, <<"set-cookie", "b=2">> >>
    /\ hdr.result = << <<"set-cookie", "b=2">> >>

\* of two x-api-key values of the client a route that keeps the client's
\* credentials sends the second
C40_RequestValueLost ==
    /\ hdr.op = "build_forwarding_headers"
    /\ hdr.route[1].strip_auth = FALSE
    /\ hdr.route[1].api_key = None
    /\ ValuesInOrder(hdr.original, "x-api-key") = <<"client-key", "second-key">>
    /\ ValuesInOrder(hdr.result, "x-api-key") = <<"second-key">>

====
